---- MODULE Spec2Model ----
(***************************************************************************)
(* Squash ladder: the transaction-log state engine.                        *)
(*                                                                         *)
(* The snapshot-log Model keeps no state in memory: every operation reads  *)
(* the append-only log file, and every record of the log embeds the player *)
(* ordering that results from it.  The log file is modelled as the         *)
(* sequence of its decoded records (one per line).                         *)
(***************************************************************************)
EXTENDS Integers, Sequences, FiniteSets, TLC

\* ------------------------------------------------------------------ bounds
\* Largest number of records one behaviour appends to the log.
MaxLog == 4
\* Largest limit passed to GetRecentMatches.
MaxLimit == 2
\* Largest number of transactions one behaviour of the in-memory Model appends.
MaxTx == 3
\* Largest number of sets in a score handed to ValidateScore.
MaxSets == 6
\* Largest number of sets in a score that uses the point totals of PointInputs.
MaxPointSets == 3
\* Largest number of damaged lines in a log.
MaxDamaged == 1
\* Largest number of records appended while reading calls run beside the
\* mutating ones.
MaxShared == 2

\* ------------------------------------------------------------------ inputs
\* Caller-supplied player ids; "" asks AddPlayer to generate one.
PlayerIds == {"alice", "bob", "charlie"}
\* The ids uuid.New() hands out to players added without an id.
GeneratedIds == {"uuid-1"}
\* The two players of the ladder that SpecLadder starts from.
LadderIds == {"alice", "bob"}
\* The goroutines that call the Model concurrently.
Procs == {"g1", "g2"}
Names == {"Ann"}
\* The set scores of a match are carried in the payload and never read by the
\* ladder logic.
ScoreInputs == {<<[challenger_points |-> 11, defender_points |-> 5,
                   challenger_default |-> FALSE, defender_default |-> FALSE]>>}

NoErr == ""

VARIABLES
    fileExists,   \* whether the file at LogFilePath exists
    log,          \* the records of the log file, oldest first
    ret,          \* the last call made on the Model and what it returned
    writes,       \* how many records have been appended since Init
    mu,           \* the Model's RWMutex: the writer holding it, the readers
    pc,           \* where each goroutine stands in the method it runs
    call,         \* the method each goroutine runs, with its arguments
    seen,         \* the file content each goroutine has read
    Players,      \* in-memory Model: the player list it keeps
    Transactions, \* in-memory Model: its cache of the transactions
    jsonFile      \* in-memory Model: the lines of its log file

concVars == <<mu, pc, call, seen>>

memVars == <<Players, Transactions, jsonFile>>

logVars == <<fileExists, log>>

vars == <<fileExists, log, ret, writes, mu, pc, call, seen,
          Players, Transactions, jsonFile>>

\* The player who challenges in the requests to the service.
Challengers == {"bob"}

\* ------------------------------------------------------------- conversions
\* storagepb.PlayerStorage -> ladderpb.Player, field by field.
storageToLadder(sPlayers) ==
    [i \in 1..Len(sPlayers) |->
        [id |-> sPlayers[i].id, name |-> sPlayers[i].name, rank |-> sPlayers[i].rank]]

\* ladderpb.Player -> storagepb.PlayerStorage, field by field.
ladderToStorage(lPlayers) ==
    [i \in 1..Len(lPlayers) |->
        [id |-> lPlayers[i].id, name |-> lPlayers[i].name, rank |-> lPlayers[i].rank]]

\* Mutant: the first line of the file is read, not the last.
CurrentStateFromFirstLine(exists, lg) ==
    IF ~exists THEN [players |-> <<>>, err |-> NoErr]
    ELSE IF Len(lg) = 0 THEN [players |-> <<>>, err |-> NoErr]
    ELSE [players |-> storageToLadder(lg[1].player_list), err |-> NoErr]

\* ------------------------------------------------------------- file lines
\* A line that base64.DecodeString and proto.Unmarshal accept.  A line of
\* which WriteString wrote only a part is not one.
Decodable(line) == line.type # "TRUNCATED"

\* What is in the file when WriteString stops part-way through the record.
Truncated(tx) == [tx EXCEPT !.type = "TRUNCATED"]

\* ------------------------------------------------------------ read the tail
\* The player list of the last record of the log; the empty list when the
\* file is missing or empty.
\* Mutant: a missing log file is an error, as it is for the invalidation scan.
CurrentStateNeedsFile(exists, lg) ==
    IF ~exists THEN [players |-> <<>>, err |-> "no such file or directory"]
    ELSE IF Len(lg) = 0 THEN [players |-> <<>>, err |-> NoErr]
    ELSE IF ~Decodable(lg[Len(lg)])
    THEN [players |-> <<>>, err |-> "failed to decode line"]
    ELSE [players |-> storageToLadder(lg[Len(lg)].player_list), err |-> NoErr]

\* Mutant: an undecodable last line is passed over and the newest decodable
\* line gives the state.
CurrentStateOfLastGoodLine(exists, lg) ==
    LET good == {i \in 1..Len(lg) : Decodable(lg[i])}
    IN  IF ~exists \/ good = {} THEN [players |-> <<>>, err |-> NoErr]
        ELSE [players |-> storageToLadder(
                              lg[CHOOSE i \in good : \A j \in good : j <= i].player_list),
              err |-> NoErr]

CurrentState(exists, lg) ==
    IF ~exists THEN [players |-> <<>>, err |-> NoErr]
    ELSE IF Len(lg) = 0 THEN [players |-> <<>>, err |-> NoErr]
    ELSE IF ~Decodable(lg[Len(lg)])
    THEN [players |-> <<>>, err |-> "failed to decode line"]
    ELSE [players |-> storageToLadder(lg[Len(lg)].player_list), err |-> NoErr]

\* ------------------------------------------------------------ rank updates
\* Index of the first player with this id, 0 when there is none
\* (the loop with break of REMOVE_PLAYER).
FirstIdx(players, id) ==
    IF \E i \in 1..Len(players) : players[i].id = id
    THEN CHOOSE i \in 1..Len(players) :
            /\ players[i].id = id
            /\ \A j \in 1..(i - 1) : players[j].id # id
    ELSE 0

\* Index of the last player with this id, 0 when there is none
\* (the loop without break of MATCH_RESULT).
LastIdx(players, id) ==
    IF \E i \in 1..Len(players) : players[i].id = id
    THEN CHOOSE i \in 1..Len(players) :
            /\ players[i].id = id
            /\ \A j \in (i + 1)..Len(players) : players[j].id # id
    ELSE 0

\* Mutant: the new player is put at the top and everyone else moves down.
AddAtTop(p, players) ==
    IF \E i \in 1..Len(players) : players[i].id = p.player_id
    THEN [players |-> <<>>, err |-> "player ID already exists"]
    ELSE [players |-> [i \in 1..(Len(players) + 1) |->
                          IF i = 1
                          THEN [id |-> p.player_id, name |-> p.name, rank |-> 1]
                          ELSE [players[i - 1] EXCEPT !.rank = i]],
          err |-> NoErr]

\* Mutant: no duplicate check.
AddWithoutDuplicateCheck(p, players) ==
    [players |-> Append(players,
                        [id |-> p.player_id, name |-> p.name,
                         rank |-> Len(players) + 1]),
     err |-> NoErr]

ApplyAddPlayer(p, players) ==
    IF \E i \in 1..Len(players) : players[i].id = p.player_id
    THEN [players |-> <<>>, err |-> "player ID already exists"]
    ELSE [players |-> Append(players,
                             [id |-> p.player_id, name |-> p.name,
                              rank |-> Len(players) + 1]),
          err |-> NoErr]

\* Mutant: the player at the top is deleted, whoever was named.
RemoveFirstPlayer(p, players) ==
    LET idx == FirstIdx(players, p.player_id)
    IN  IF idx = 0
        THEN [players |-> <<>>, err |-> "player not found"]
        ELSE [players |-> [i \in 1..(Len(players) - 1) |->
                              [players[i + 1] EXCEPT !.rank = i]],
              err |-> NoErr]

\* Mutant: the player is deleted and the ranks below are left as they were.
RemoveWithoutRerank(p, players) ==
    LET idx == FirstIdx(players, p.player_id)
    IN  IF idx = 0
        THEN [players |-> <<>>, err |-> "player not found"]
        ELSE [players |-> [i \in 1..(Len(players) - 1) |->
                              IF i < idx THEN players[i] ELSE players[i + 1]],
              err |-> NoErr]

ApplyRemovePlayer(p, players) ==
    LET idx == FirstIdx(players, p.player_id)
        removed == [i \in 1..(Len(players) - 1) |->
                        IF i < idx THEN players[i] ELSE players[i + 1]]
    IN  IF idx = 0
        THEN [players |-> <<>>, err |-> "player not found"]
        ELSE [players |-> [i \in 1..Len(removed) |->
                              IF i >= idx THEN [removed[i] EXCEPT !.rank = i]
                              ELSE removed[i]],
              err |-> NoErr]

\* Mutant: the move is made whenever winner and loser differ, also when the
\* winner already stands above the loser.
MatchResultAlwaysMoves(p, players) ==
    LET challengerIdx == LastIdx(players, p.challenger_id)
        defenderIdx == LastIdx(players, p.defender_id)
        winnerIdx == IF p.winner_id = p.challenger_id THEN challengerIdx ELSE defenderIdx
        loserIdx == IF p.winner_id = p.challenger_id THEN defenderIdx ELSE challengerIdx
        hi == IF winnerIdx < loserIdx THEN winnerIdx ELSE loserIdx
        lo == IF winnerIdx < loserIdx THEN loserIdx ELSE winnerIdx
    IN  IF challengerIdx = 0 \/ defenderIdx = 0
        THEN [players |-> <<>>, err |-> "challenger or defender not found"]
        ELSE [players |-> [i \in 1..Len(players) |->
                              IF i = hi THEN [players[lo] EXCEPT !.rank = i]
                              ELSE IF i > hi /\ i <= lo
                              THEN [players[i - 1] EXCEPT !.rank = i]
                              ELSE players[i]],
              err |-> NoErr]

\* Mutant: the winner is written over the loser's place and nobody is
\* shifted down.
MatchResultWithoutShift(p, players) ==
    LET challengerIdx == LastIdx(players, p.challenger_id)
        defenderIdx == LastIdx(players, p.defender_id)
        winnerIdx == IF p.winner_id = p.challenger_id THEN challengerIdx ELSE defenderIdx
        loserIdx == IF p.winner_id = p.challenger_id THEN defenderIdx ELSE challengerIdx
    IN  IF challengerIdx = 0 \/ defenderIdx = 0
        THEN [players |-> <<>>, err |-> "challenger or defender not found"]
        ELSE IF winnerIdx > loserIdx
        THEN [players |-> [i \in 1..Len(players) |->
                              IF i = loserIdx
                              THEN [players[winnerIdx] EXCEPT !.rank = i]
                              ELSE players[i]],
              err |-> NoErr]
        ELSE [players |-> players, err |-> NoErr]

\* Mutant: winner and loser trade places, nobody between them moves.
MatchResultBySwap(p, players) ==
    LET challengerIdx == LastIdx(players, p.challenger_id)
        defenderIdx == LastIdx(players, p.defender_id)
        winnerIdx == IF p.winner_id = p.challenger_id THEN challengerIdx ELSE defenderIdx
        loserIdx == IF p.winner_id = p.challenger_id THEN defenderIdx ELSE challengerIdx
    IN  IF challengerIdx = 0 \/ defenderIdx = 0
        THEN [players |-> <<>>, err |-> "challenger or defender not found"]
        ELSE IF winnerIdx > loserIdx
        THEN [players |-> [i \in 1..Len(players) |->
                              IF i = loserIdx
                              THEN [players[winnerIdx] EXCEPT !.rank = i]
                              ELSE IF i = winnerIdx
                              THEN [players[loserIdx] EXCEPT !.rank = i]
                              ELSE players[i]],
              err |-> NoErr]
        ELSE [players |-> players, err |-> NoErr]

ApplyMatchResult(p, players) ==
    LET challengerIdx == LastIdx(players, p.challenger_id)
        defenderIdx == LastIdx(players, p.defender_id)
        winnerIdx == IF p.winner_id = p.challenger_id THEN challengerIdx ELSE defenderIdx
        loserIdx == IF p.winner_id = p.challenger_id THEN defenderIdx ELSE challengerIdx
        moved == [i \in 1..Len(players) |->
                    IF i = loserIdx THEN players[winnerIdx]
                    ELSE IF i > loserIdx /\ i <= winnerIdx THEN players[i - 1]
                    ELSE players[i]]
    IN  IF challengerIdx = 0 \/ defenderIdx = 0
        THEN [players |-> <<>>, err |-> "challenger or defender not found"]
        ELSE IF winnerIdx > loserIdx
        THEN [players |-> [i \in 1..Len(players) |->
                              IF i >= loserIdx /\ i <= winnerIdx
                              THEN [moved[i] EXCEPT !.rank = i]
                              ELSE moved[i]],
              err |-> NoErr]
        ELSE [players |-> players, err |-> NoErr]

\* The new player list a transaction produces from the current one.
applyTransactionLogic(txType, payload, currentPlayers) ==
    CASE txType = "ADD_PLAYER" -> ApplyAddPlayer(payload, currentPlayers)
      [] txType = "REMOVE_PLAYER" -> ApplyRemovePlayer(payload, currentPlayers)
      [] txType = "MATCH_RESULT" -> ApplyMatchResult(payload, currentPlayers)
      [] txType = "INVALIDATE_MATCH" -> [players |-> currentPlayers, err |-> NoErr]

\* ------------------------------------------------------------------ append
\* uuid.New() for a transaction id: an id no record of the log carries.
NewTxId(lg) == Len(lg) + 1

\* uuid.New() for a player added without an id: an id no record has used.
UsedPlayerIds(lg) ==
    {lg[i].payload.player_id : i \in {j \in 1..Len(lg) : lg[j].type = "ADD_PLAYER"}}

NewPlayerId(lg) == CHOOSE g \in GeneratedIds : g \notin UsedPlayerIds(lg)

\* Mutant: the file is opened with O_TRUNC, the record replaces the log.
WriteTruncating(lg, tx) == <<tx>>

\* O_APPEND|O_CREATE: the encoded record becomes the last line of the file.
writeTransactionLocked(lg, tx) == Append(lg, tx)

Returned(op, args, err, out) == [op |-> op, args |-> args, err |-> err, out |-> out]

\* ------------------------------------------------------------- invalidation
\* The records the backward scan passes before it meets the target, newest
\* first.
\* Mutant: the newest record of the log is not pushed on the stack.
ReplayStackWithoutTail(lg, idx) ==
    [k \in 1..(Len(lg) - idx - 1) |-> lg[Len(lg) - k]]

ReplayStack(lg, idx) == [k \in 1..(Len(lg) - idx) |-> lg[Len(lg) - k + 1]]

\* Mutant: the stack is replayed from its start, newest record first.
RECURSIVE ReplayNewestFirst(_, _, _)
ReplayNewestFirst(replayStack, i, currentPlayers) ==
    IF i = 0 THEN [players |-> currentPlayers, err |-> NoErr]
    ELSE LET t == replayStack[Len(replayStack) - i + 1]
             r == applyTransactionLogic(t.type, t.payload, currentPlayers)
         IN  IF t.type = "INVALIDATE_MATCH"
             THEN ReplayNewestFirst(replayStack, i - 1, currentPlayers)
             ELSE IF r.err # NoErr
             THEN [players |-> <<>>, err |-> "replay failed"]
             ELSE ReplayNewestFirst(replayStack, i - 1, r.players)

\* Mutant: the replay passes over REMOVE_PLAYER records as well.
RECURSIVE ReplayWithoutRemovals(_, _, _)
ReplayWithoutRemovals(replayStack, i, currentPlayers) ==
    IF i = 0 THEN [players |-> currentPlayers, err |-> NoErr]
    ELSE LET t == replayStack[i]
             r == applyTransactionLogic(t.type, t.payload, currentPlayers)
         IN  IF t.type \in {"INVALIDATE_MATCH", "REMOVE_PLAYER"}
             THEN ReplayWithoutRemovals(replayStack, i - 1, currentPlayers)
             ELSE IF r.err # NoErr
             THEN [players |-> <<>>, err |-> "replay failed"]
             ELSE ReplayWithoutRemovals(replayStack, i - 1, r.players)

\* The forward replay: the stack from its end (oldest) to its start (newest),
\* INVALIDATE_MATCH records passed over.
RECURSIVE Replay(_, _, _)
Replay(replayStack, i, currentPlayers) ==
    IF i = 0 THEN [players |-> currentPlayers, err |-> NoErr]
    ELSE LET t == replayStack[i]
             r == applyTransactionLogic(t.type, t.payload, currentPlayers)
         IN  IF t.type = "INVALIDATE_MATCH"
             THEN Replay(replayStack, i - 1, currentPlayers)
             ELSE IF r.err # NoErr
             THEN [players |-> <<>>, err |-> "replay failed"]
             ELSE Replay(replayStack, i - 1, r.players)

\* The record the backward scan stops at: the last one carrying txID, 0 when
\* the scan reaches the start of the file.
ScanForTarget(lg, txID) ==
    IF \E i \in 1..Len(lg) : lg[i].id = txID
    THEN CHOOSE i \in 1..Len(lg) :
            /\ lg[i].id = txID
            /\ \A j \in (i + 1)..Len(lg) : lg[j].id # txID
    ELSE 0

\* The backward scan decodes every line from the tail down to the target and
\* the one before it, or down to the start of the file when there is no
\* target; it returns the error of the first line it cannot decode.
DecodeFails(lg, idx) ==
    \E j \in (IF idx > 1 THEN idx - 1 ELSE 1)..Len(lg) : ~Decodable(lg[j])

\* Mutant: the baseline is the target's own snapshot, not the one before it.
InvalidateFromTargetSnapshot(exists, lg, txID) ==
    LET idx == ScanForTarget(lg, txID)
        baseline == IF idx > 0 THEN storageToLadder(lg[idx].player_list) ELSE <<>>
        stack == ReplayStack(lg, idx)
    IN  IF ~exists THEN [players |-> <<>>, err |-> "no such file or directory"]
        ELSE IF idx = 0 THEN [players |-> <<>>, err |-> "transaction not found"]
        ELSE IF lg[idx].type # "MATCH_RESULT"
        THEN [players |-> <<>>, err |-> "can only invalidate match results"]
        ELSE Replay(stack, Len(stack), baseline)

\* What InvalidateMatchResult computes before it appends: the error it
\* returns, or the player list of the INVALIDATE_MATCH record.
\* Mutant: the replay starts from the empty player list.
InvalidateFromEmptyList(exists, lg, txID) ==
    LET idx == ScanForTarget(lg, txID)
        stack == ReplayStack(lg, idx)
    IN  IF ~exists THEN [players |-> <<>>, err |-> "no such file or directory"]
        ELSE IF DecodeFails(lg, idx)
        THEN [players |-> <<>>, err |-> "illegal base64 data"]
        ELSE IF idx = 0 THEN [players |-> <<>>, err |-> "transaction not found"]
        ELSE IF lg[idx].type # "MATCH_RESULT"
        THEN [players |-> <<>>, err |-> "can only invalidate match results"]
        ELSE Replay(stack, Len(stack), <<>>)

InvalidateOutcome(exists, lg, txID) ==
    LET idx == ScanForTarget(lg, txID)
        baseline == IF idx > 1 THEN storageToLadder(lg[idx - 1].player_list) ELSE <<>>
        stack == ReplayStack(lg, idx)
    IN  IF ~exists THEN [players |-> <<>>, err |-> "no such file or directory"]
        ELSE IF DecodeFails(lg, idx)
        THEN [players |-> <<>>, err |-> "illegal base64 data"]
        ELSE IF idx = 0 THEN [players |-> <<>>, err |-> "transaction not found"]
        ELSE IF lg[idx].type # "MATCH_RESULT"
        THEN [players |-> <<>>, err |-> "can only invalidate match results"]
        ELSE Replay(stack, Len(stack), baseline)

\* ------------------------------------------------------------ recent matches
\* Mutant: the scan does not consult the invalidated ids.
RECURSIVE ScanAllMatches(_, _, _, _, _, _)
ScanAllMatches(lg, i, count, invalidatedIds, matches, limit) ==
    IF count >= limit \/ i = 0 THEN matches
    ELSE LET t == lg[i]
         IN  IF t.type = "MATCH_RESULT"
             THEN ScanAllMatches(lg, i - 1, count + 1, invalidatedIds,
                                 Append(matches,
                                        [challenger_id |-> t.payload.challenger_id,
                                         defender_id |-> t.payload.defender_id,
                                         winner_id |-> t.payload.winner_id,
                                         set_scores |-> t.payload.set_scores,
                                         transaction_id |-> t.id]),
                                 limit)
             ELSE ScanAllMatches(lg, i - 1, count, invalidatedIds, matches, limit)

\* Mutant: the scan does not stop at the limit.
RECURSIVE ScanMatchesNoLimit(_, _, _, _, _, _)
ScanMatchesNoLimit(lg, i, count, invalidatedIds, matches, limit) ==
    IF i = 0 THEN matches
    ELSE LET t == lg[i]
         IN  IF t.type = "INVALIDATE_MATCH"
             THEN ScanMatchesNoLimit(lg, i - 1, count,
                                     invalidatedIds
                                        \cup {t.payload.invalidated_transaction_id},
                                     matches, limit)
             ELSE IF t.type = "MATCH_RESULT" /\ t.id \notin invalidatedIds
             THEN ScanMatchesNoLimit(lg, i - 1, count + 1, invalidatedIds,
                                     Append(matches,
                                            [challenger_id |-> t.payload.challenger_id,
                                             defender_id |-> t.payload.defender_id,
                                             winner_id |-> t.payload.winner_id,
                                             set_scores |-> t.payload.set_scores,
                                             transaction_id |-> t.id]),
                                     limit)
             ELSE ScanMatchesNoLimit(lg, i - 1, count, invalidatedIds, matches, limit)

\* Mutant: an invalidation also hides the matches recorded after its target.
RECURSIVE ScanMatchesHidingLater(_, _, _, _, _, _)
ScanMatchesHidingLater(lg, i, count, invalidatedIds, matches, limit) ==
    IF count >= limit \/ i = 0 THEN matches
    ELSE LET t == lg[i]
         IN  IF ~Decodable(t)
             THEN ScanMatchesHidingLater(lg, i - 1, count, invalidatedIds, matches, limit)
             ELSE IF t.type = "INVALIDATE_MATCH"
             THEN ScanMatchesHidingLater(lg, i - 1, count,
                              invalidatedIds \cup {t.payload.invalidated_transaction_id},
                              matches, limit)
             ELSE IF t.type = "MATCH_RESULT" /\ \A x \in invalidatedIds : t.id < x
             THEN ScanMatchesHidingLater(lg, i - 1, count + 1, invalidatedIds,
                              Append(matches,
                                     [challenger_id |-> t.payload.challenger_id,
                                      defender_id |-> t.payload.defender_id,
                                      winner_id |-> t.payload.winner_id,
                                      set_scores |-> t.payload.set_scores,
                                      transaction_id |-> t.id]),
                              limit)
             ELSE ScanMatchesHidingLater(lg, i - 1, count, invalidatedIds, matches, limit)

\* Mutant: the scan ends at the first line that cannot be decoded.
RECURSIVE ScanMatchesStopAtBadLine(_, _, _, _, _, _)
ScanMatchesStopAtBadLine(lg, i, count, invalidatedIds, matches, limit) ==
    IF count >= limit \/ i = 0 THEN matches
    ELSE LET t == lg[i]
         IN  IF ~Decodable(t)
             THEN matches
             ELSE IF t.type = "INVALIDATE_MATCH"
             THEN ScanMatchesStopAtBadLine(lg, i - 1, count,
                              invalidatedIds \cup {t.payload.invalidated_transaction_id},
                              matches, limit)
             ELSE IF t.type = "MATCH_RESULT" /\ t.id \notin invalidatedIds
             THEN ScanMatchesStopAtBadLine(lg, i - 1, count + 1, invalidatedIds,
                              Append(matches,
                                     [challenger_id |-> t.payload.challenger_id,
                                      defender_id |-> t.payload.defender_id,
                                      winner_id |-> t.payload.winner_id,
                                      set_scores |-> t.payload.set_scores,
                                      transaction_id |-> t.id]),
                              limit)
             ELSE ScanMatchesStopAtBadLine(lg, i - 1, count, invalidatedIds, matches, limit)

RECURSIVE ScanMatches(_, _, _, _, _, _)
ScanMatches(lg, i, count, invalidatedIds, matches, limit) ==
    IF count >= limit \/ i = 0 THEN matches
    ELSE LET t == lg[i]
         IN  IF ~Decodable(t)
             THEN ScanMatches(lg, i - 1, count, invalidatedIds, matches, limit)
             ELSE IF t.type = "INVALIDATE_MATCH"
             THEN ScanMatches(lg, i - 1, count,
                              invalidatedIds \cup {t.payload.invalidated_transaction_id},
                              matches, limit)
             ELSE IF t.type = "MATCH_RESULT" /\ t.id \notin invalidatedIds
             THEN ScanMatches(lg, i - 1, count + 1, invalidatedIds,
                              Append(matches,
                                     [challenger_id |-> t.payload.challenger_id,
                                      defender_id |-> t.payload.defender_id,
                                      winner_id |-> t.payload.winner_id,
                                      set_scores |-> t.payload.set_scores,
                                      transaction_id |-> t.id]),
                              limit)
             ELSE ScanMatches(lg, i - 1, count, invalidatedIds, matches, limit)

RecentMatches(exists, lg, limit) ==
    IF ~exists THEN <<>> ELSE ScanMatches(lg, Len(lg), 0, {}, <<>>, limit)

\* ------------------------------------------------------ what a call computes
\* Each mutating method reads the log, computes the player list of the record
\* it is about to append, and returns early on an error.  These operators give
\* that computation for the file content (exists, lg) the method has read.
AddPlayerPayload(name, pid) == [player_id |-> pid, name |-> name]

AddPlayerOutcome(name, pid, exists, lg) ==
    LET cs == CurrentState(exists, lg)
    IN  IF cs.err # NoErr THEN cs
        ELSE applyTransactionLogic("ADD_PLAYER", AddPlayerPayload(name, pid), cs.players)

RemovePlayerPayload(playerID) == [player_id |-> playerID]

RemovePlayerOutcome(playerID, exists, lg) ==
    LET cs == CurrentState(exists, lg)
    IN  IF cs.err # NoErr THEN cs
        ELSE applyTransactionLogic("REMOVE_PLAYER", RemovePlayerPayload(playerID),
                                   cs.players)

MatchResultPayload(challengerID, defenderID, winnerID, setScores) ==
    [challenger_id |-> challengerID, defender_id |-> defenderID,
     winner_id |-> winnerID, set_scores |-> setScores]

\* The check AddMatchResult makes before it takes the lock.
WinnerIsNoSide(challengerID, defenderID, winnerID) ==
    winnerID # challengerID /\ winnerID # defenderID

AddMatchResultOutcome(challengerID, defenderID, winnerID, setScores, exists, lg) ==
    LET cs == CurrentState(exists, lg)
    IN  IF WinnerIsNoSide(challengerID, defenderID, winnerID)
        THEN [players |-> <<>>, err |-> "winner must be one of the players"]
        ELSE IF cs.err # NoErr THEN cs
        ELSE applyTransactionLogic("MATCH_RESULT",
                 MatchResultPayload(challengerID, defenderID, winnerID, setScores),
                 cs.players)

InvalidateMatchPayload(txID) == [invalidated_transaction_id |-> txID]

\* The record a method hands to writeTransactionLocked.
Transaction(id, txType, payload, players) ==
    [id |-> id, type |-> txType, payload |-> payload,
     player_list |-> ladderToStorage(players)]

\* -------------------------------------------------------------------- state
NoCall == [op |-> "", args |-> <<>>]
NoFile == [exists |-> FALSE, lg |-> <<>>]
Unlocked == [writer |-> "", readers |-> {}]

Init ==
    /\ fileExists \in BOOLEAN
    /\ log = <<>>
    /\ ret = Returned("NewModel", <<>>, NoErr, <<>>)
    /\ writes = 0
    /\ mu = Unlocked
    /\ pc = [p \in Procs |-> "idle"]
    /\ call = [p \in Procs |-> NoCall]
    /\ seen = [p \in Procs |-> NoFile]
    /\ Players = <<>>
    /\ Transactions = <<>>
    /\ jsonFile = <<>>

\* The log that AddPlayer("Ann", "alice") and AddPlayer("Ann", "bob") leave
\* behind.
TwoPlayerLog ==
    LET pa == AddPlayerOutcome("Ann", "alice", FALSE, <<>>).players
        first == <<Transaction(1, "ADD_PLAYER", AddPlayerPayload("Ann", "alice"), pa)>>
        pb == AddPlayerOutcome("Ann", "bob", TRUE, first).players
    IN  writeTransactionLocked(first,
            Transaction(2, "ADD_PLAYER", AddPlayerPayload("Ann", "bob"), pb))

\* A Model opened on a ladder that already has two players.
InitLadder ==
    /\ fileExists = TRUE
    /\ log = TwoPlayerLog
    /\ ret = Returned("NewModel", <<>>, NoErr, <<>>)
    /\ writes = 0
    /\ mu = Unlocked
    /\ pc = [p \in Procs |-> "idle"]
    /\ call = [p \in Procs |-> NoCall]
    /\ seen = [p \in Procs |-> NoFile]
    /\ Players = <<>>
    /\ Transactions = <<>>
    /\ jsonFile = <<>>

\* ------------------------------------------- one caller at a time: methods
\* With a single caller the lock is always free and each method runs from
\* Lock to Unlock as one step.
\* The end of a mutating method: the error goes back to the caller, or the
\* record is appended.
Commit(op, args, txType, payload, r, out) ==
    /\ IF r.err # NoErr
       THEN /\ ret' = Returned(op, args, r.err, <<>>)
            /\ UNCHANGED <<fileExists, log, writes>>
       ELSE /\ writes < MaxLog
            /\ writes' = writes + 1
            /\ log' = writeTransactionLocked(log,
                          Transaction(NewTxId(log), txType, payload, r.players))
            /\ fileExists' = TRUE
            /\ ret' = Returned(op, args, NoErr, out)
    /\ UNCHANGED concVars
    /\ UNCHANGED memVars

AddPlayer(name, playerID) ==
    /\ playerID = "" => \E g \in GeneratedIds : g \notin UsedPlayerIds(log)
    /\ LET pid == IF playerID = "" THEN NewPlayerId(log) ELSE playerID
           r == AddPlayerOutcome(name, pid, fileExists, log)
       IN  Commit("AddPlayer", <<name, playerID>>, "ADD_PLAYER",
                  AddPlayerPayload(name, pid), r,
                  IF r.err = NoErr THEN <<r.players[Len(r.players)]>> ELSE <<>>)

RemovePlayer(playerID) ==
    Commit("RemovePlayer", <<playerID>>, "REMOVE_PLAYER",
           RemovePlayerPayload(playerID),
           RemovePlayerOutcome(playerID, fileExists, log), <<>>)

AddMatchResult(challengerID, defenderID, winnerID, setScores) ==
    Commit("AddMatchResult", <<challengerID, defenderID, winnerID>>, "MATCH_RESULT",
           MatchResultPayload(challengerID, defenderID, winnerID, setScores),
           AddMatchResultOutcome(challengerID, defenderID, winnerID, setScores,
                                 fileExists, log),
           <<NewTxId(log)>>)

InvalidateMatchResult(txID) ==
    Commit("InvalidateMatchResult", <<txID>>, "INVALIDATE_MATCH",
           InvalidateMatchPayload(txID),
           InvalidateOutcome(fileExists, log, txID), <<>>)

ListPlayers ==
    /\ LET cs == CurrentState(fileExists, log)
       IN  ret' = Returned("ListPlayers", <<>>, NoErr,
                           IF cs.err # NoErr THEN <<>> ELSE cs.players)
    /\ UNCHANGED <<fileExists, log, writes>>
    /\ UNCHANGED concVars
    /\ UNCHANGED memVars

GetRecentMatches(limit) ==
    /\ ret' = Returned("GetRecentMatches", <<limit>>, NoErr,
                       RecentMatches(fileExists, log, limit))
    /\ UNCHANGED <<fileExists, log, writes>>
    /\ UNCHANGED concVars
    /\ UNCHANGED memVars

Next ==
    \/ \E name \in Names, playerID \in PlayerIds \cup {""} : AddPlayer(name, playerID)
    \/ \E playerID \in PlayerIds \cup GeneratedIds : RemovePlayer(playerID)
    \/ \E c \in PlayerIds, d \in PlayerIds, w \in PlayerIds, s \in ScoreInputs :
          AddMatchResult(c, d, w, s)
    \/ \E txID \in 1..(Len(log) + 1) : InvalidateMatchResult(txID)
    \/ ListPlayers
    \/ \E limit \in 0..MaxLimit : GetRecentMatches(limit)

Spec == Init /\ [][Next]_vars

\* The same Model, opened on a ladder that already has two players, with
\* calls that name those two players only.
NextLadder ==
    \/ \E name \in Names, playerID \in LadderIds : AddPlayer(name, playerID)
    \/ \E playerID \in LadderIds : RemovePlayer(playerID)
    \/ \E c \in LadderIds, d \in LadderIds, w \in LadderIds, s \in ScoreInputs :
          AddMatchResult(c, d, w, s)
    \/ \E txID \in 1..(Len(log) + 1) : InvalidateMatchResult(txID)
    \/ ListPlayers
    \/ \E limit \in (-1)..MaxLimit : GetRecentMatches(limit)

SpecLadder == InitLadder /\ [][NextLadder]_vars

\* --------------------------------------- concurrent callers: method steps
\* Each goroutine in Procs runs one mutating method at a time.  The steps of
\* a method are the points where it touches the lock or the file: Lock, the
\* read of the file, the append, Unlock.
MutatingCalls(lg) ==
    {[op |-> "AddPlayer", args |-> <<name, id>>] : name \in Names, id \in LadderIds}
    \cup {[op |-> "RemovePlayer", args |-> <<id>>] : id \in LadderIds}
    \cup {[op |-> "AddMatchResult", args |-> <<c, d, w, s>>] :
            c \in LadderIds, d \in LadderIds, w \in LadderIds, s \in ScoreInputs}
    \cup {[op |-> "InvalidateMatchResult", args |-> <<t>>] : t \in 1..(Len(lg) + 1)}

\* A call that returns before it takes the lock.
ReturnsBeforeLock(c) ==
    c.op = "AddMatchResult" /\ WinnerIsNoSide(c.args[1], c.args[2], c.args[3])

CallType(c) ==
    CASE c.op = "AddPlayer" -> "ADD_PLAYER"
      [] c.op = "RemovePlayer" -> "REMOVE_PLAYER"
      [] c.op = "AddMatchResult" -> "MATCH_RESULT"
      [] c.op = "InvalidateMatchResult" -> "INVALIDATE_MATCH"

CallPayload(c) ==
    CASE c.op = "AddPlayer" -> AddPlayerPayload(c.args[1], c.args[2])
      [] c.op = "RemovePlayer" -> RemovePlayerPayload(c.args[1])
      [] c.op = "AddMatchResult" ->
            MatchResultPayload(c.args[1], c.args[2], c.args[3], c.args[4])
      [] c.op = "InvalidateMatchResult" -> InvalidateMatchPayload(c.args[1])

\* What the call computes from the file content it has read.
CallOutcome(c, file) ==
    CASE c.op = "AddPlayer" ->
            AddPlayerOutcome(c.args[1], c.args[2], file.exists, file.lg)
      [] c.op = "RemovePlayer" -> RemovePlayerOutcome(c.args[1], file.exists, file.lg)
      [] c.op = "AddMatchResult" ->
            AddMatchResultOutcome(c.args[1], c.args[2], c.args[3], c.args[4],
                                  file.exists, file.lg)
      [] c.op = "InvalidateMatchResult" ->
            InvalidateOutcome(file.exists, file.lg, c.args[1])

InFlight == {p \in Procs : pc[p] # "idle"}

\* A goroutine enters a method.
Begin(p, c) ==
    /\ pc[p] = "idle"
    /\ writes + Cardinality(InFlight) < MaxLog
    /\ IF ReturnsBeforeLock(c)
       THEN UNCHANGED <<pc, call>>
       ELSE /\ pc' = [pc EXCEPT ![p] = "lock"]
            /\ call' = [call EXCEPT ![p] = c]
    /\ UNCHANGED <<fileExists, log, ret, writes, mu, seen, Players, Transactions, jsonFile>>

\* Mutant: the method does not wait for the lock.
LockNotAwaited(m) == TRUE

\* m.mu.Lock() returns once no writer and no reader holds the lock.
LockIsFree(m) == m.writer = "" /\ m.readers = {}

Lock(p) ==
    /\ pc[p] = "lock"
    /\ LockIsFree(mu)
    /\ mu' = [mu EXCEPT !.writer = p]
    /\ pc' = [pc EXCEPT ![p] = "read"]
    /\ UNCHANGED <<fileExists, log, ret, writes, call, seen, Players, Transactions, jsonFile>>

\* The method opens the file and reads what it needs from it.
ReadLog(p) ==
    /\ pc[p] = "read"
    /\ seen' = [seen EXCEPT ![p] = [exists |-> fileExists, lg |-> log]]
    /\ pc' = [pc EXCEPT ![p] = "write"]
    /\ UNCHANGED <<fileExists, log, ret, writes, mu, call, Players, Transactions, jsonFile>>

\* The method computes the new player list and appends the record, or
\* returns the error.
WriteLog(p) ==
    /\ pc[p] = "write"
    /\ LET r == CallOutcome(call[p], seen[p])
       IN  IF r.err # NoErr
           THEN UNCHANGED <<fileExists, log, writes>>
           ELSE /\ log' = writeTransactionLocked(log,
                              Transaction(NewTxId(log), CallType(call[p]),
                                          CallPayload(call[p]), r.players))
                /\ fileExists' = TRUE
                /\ writes' = writes + 1
    /\ seen' = [seen EXCEPT ![p] = NoFile]
    /\ pc' = [pc EXCEPT ![p] = "unlock"]
    /\ UNCHANGED <<ret, mu, call, Players, Transactions, jsonFile>>

\* Mutant: the method returns without releasing the lock.
ReturnWithoutUnlock(p) ==
    /\ pc[p] = "unlock"
    /\ pc' = [pc EXCEPT ![p] = "idle"]
    /\ call' = [call EXCEPT ![p] = NoCall]
    /\ UNCHANGED <<fileExists, log, ret, writes, mu, seen, Players, Transactions, jsonFile>>

\* The deferred m.mu.Unlock() and the return.
Unlock(p) ==
    /\ pc[p] = "unlock"
    /\ mu' = [mu EXCEPT !.writer = ""]
    /\ pc' = [pc EXCEPT ![p] = "idle"]
    /\ call' = [call EXCEPT ![p] = NoCall]
    /\ UNCHANGED <<fileExists, log, ret, writes, seen, Players, Transactions, jsonFile>>

NextConcurrent ==
    \/ \E p \in Procs : \E c \in MutatingCalls(log) : Begin(p, c)
    \/ \E p \in Procs : Lock(p)
    \/ \E p \in Procs : ReadLog(p)
    \/ \E p \in Procs : WriteLog(p)
    \/ \E p \in Procs : Unlock(p)

SpecConcurrent == Init /\ [][NextConcurrent]_vars

\* ------------------------------- concurrent callers: readers and appenders
\* ListPlayers and GetRecentMatches hold the read lock from their first
\* statement to their return.  The append of a record reaches the file
\* either whole or in two parts; between the parts the last line of the
\* file is a record cut short.
ReadCalls ==
    {[op |-> "ListPlayers", args |-> <<>>],
     [op |-> "GetRecentMatches", args |-> <<MaxLimit>>]}

\* The mutating calls made while readers run: one of each method, on the
\* challenger and on the newest record.
SharedCalls(lg) ==
    {[op |-> "AddPlayer", args |-> <<name, id>>] : name \in Names, id \in Challengers}
    \cup {[op |-> "RemovePlayer", args |-> <<id>>] : id \in Challengers}
    \cup {[op |-> "AddMatchResult", args |-> <<c, d, c, s>>] :
            c \in Challengers, d \in LadderIds \ Challengers, s \in ScoreInputs}
    \cup {[op |-> "InvalidateMatchResult", args |-> <<Len(lg)>>]}

\* A goroutine enters a mutating method.
BeginShared(p, c) ==
    /\ pc[p] = "idle"
    /\ writes + Cardinality({q \in Procs : pc[q] \in {"lock", "read", "write", "rest"}})
         < MaxShared
    /\ pc' = [pc EXCEPT ![p] = "lock"]
    /\ call' = [call EXCEPT ![p] = c]
    /\ UNCHANGED <<fileExists, log, ret, writes, mu, seen, Players, Transactions, jsonFile>>

\* What a reading call returns on the file content it has read.
ReadOutcome(c, file) ==
    IF c.op = "ListPlayers"
    THEN LET cs == CurrentState(file.exists, file.lg)
         IN  IF cs.err # NoErr THEN <<>> ELSE cs.players
    ELSE RecentMatches(file.exists, file.lg, c.args[1])

\* A goroutine enters ListPlayers or GetRecentMatches.
BeginRead(p, c) ==
    /\ pc[p] = "idle"
    /\ pc' = [pc EXCEPT ![p] = "rlock"]
    /\ call' = [call EXCEPT ![p] = c]
    /\ UNCHANGED <<fileExists, log, ret, writes, mu, seen, Players, Transactions, jsonFile>>

\* Mutant: the read lock does not wait for the writer.
RLockNotAwaited(m) == TRUE

\* m.mu.RLock() returns once no writer holds the lock.
RLockIsFree(m) == m.writer = ""

RLock(p) ==
    /\ pc[p] = "rlock"
    /\ RLockIsFree(mu)
    /\ mu' = [mu EXCEPT !.readers = @ \cup {p}]
    /\ pc' = [pc EXCEPT ![p] = "rread"]
    /\ UNCHANGED <<fileExists, log, ret, writes, call, seen, Players, Transactions, jsonFile>>

\* The reading call opens the file and scans it.
ReadShared(p) ==
    /\ pc[p] = "rread"
    /\ seen' = [seen EXCEPT ![p] = [exists |-> fileExists, lg |-> log]]
    /\ pc' = [pc EXCEPT ![p] = "runlock"]
    /\ UNCHANGED <<fileExists, log, ret, writes, mu, call, Players, Transactions, jsonFile>>

\* The deferred m.mu.RUnlock() and the return of what was read.
RUnlock(p) ==
    /\ pc[p] = "runlock"
    /\ ret' = Returned(call[p].op, call[p].args, NoErr, ReadOutcome(call[p], seen[p]))
    /\ mu' = [mu EXCEPT !.readers = @ \ {p}]
    /\ seen' = [seen EXCEPT ![p] = NoFile]
    /\ pc' = [pc EXCEPT ![p] = "idle"]
    /\ call' = [call EXCEPT ![p] = NoCall]
    /\ UNCHANGED <<fileExists, log, writes, Players, Transactions, jsonFile>>

\* The first part of the line reaches the file.
AppendPart(p) ==
    /\ pc[p] = "write"
    /\ LET r == CallOutcome(call[p], seen[p])
       IN  /\ r.err = NoErr
           /\ log' = Append(log, Truncated(Transaction(NewTxId(log), CallType(call[p]),
                                                       CallPayload(call[p]), r.players)))
    /\ fileExists' = TRUE
    /\ pc' = [pc EXCEPT ![p] = "rest"]
    /\ UNCHANGED <<ret, writes, mu, call, seen, Players, Transactions, jsonFile>>

\* The rest of the line reaches the file.
AppendRest(p) ==
    /\ pc[p] = "rest"
    /\ log' = [log EXCEPT ![Len(log)].type = CallType(call[p])]
    /\ writes' = writes + 1
    /\ seen' = [seen EXCEPT ![p] = NoFile]
    /\ pc' = [pc EXCEPT ![p] = "unlock"]
    /\ UNCHANGED <<fileExists, ret, mu, call, Players, Transactions, jsonFile>>

NextReaders ==
    \/ \E p \in Procs : \E c \in SharedCalls(log) : BeginShared(p, c)
    \/ \E p \in Procs : \E c \in ReadCalls : BeginRead(p, c)
    \/ \E p \in Procs : Lock(p)
    \/ \E p \in Procs : RLock(p)
    \/ \E p \in Procs : ReadLog(p)
    \/ \E p \in Procs : ReadShared(p)
    \/ \E p \in Procs : WriteLog(p)
    \/ \E p \in Procs : AppendPart(p)
    \/ \E p \in Procs : AppendRest(p)
    \/ \E p \in Procs : Unlock(p)
    \/ \E p \in Procs : RUnlock(p)

SpecReaders == InitLadder /\ [][NextReaders]_vars

\* The scheduling of the goroutines: a goroutine that can run its next
\* statement runs it, and a goroutine waiting in Lock or RLock gets the lock
\* when it is free again and again (sync.RWMutex holds back new readers while
\* a writer waits, and sync.Mutex hands the lock to a starving waiter).
\* Nothing makes a caller call.
FairSteps ==
    \A p \in Procs :
        /\ SF_vars(Lock(p))
        /\ SF_vars(RLock(p))
        /\ WF_vars(ReadLog(p))
        /\ WF_vars(ReadShared(p))
        /\ WF_vars(WriteLog(p) \/ AppendPart(p))
        /\ WF_vars(AppendRest(p))
        /\ WF_vars(Unlock(p))
        /\ WF_vars(RUnlock(p))

SpecReadersFair == InitLadder /\ [][NextReaders]_vars /\ FairSteps

\* ------------------------------------------------------ appends that fail
\* The ways the append of writeTransactionLocked returns an error: OpenFile
\* fails; WriteString fails with nothing written; WriteString fails after a
\* part of the line has reached the file.
Faults == {"open", "write", "partial"}

\* The file after a failed append of tx.
FileAfterFault(exists, lg, tx, fault) ==
    [exists |-> IF fault = "open" THEN exists ELSE TRUE,
     lg |-> IF fault = "partial" THEN Append(lg, Truncated(tx)) ELSE lg]

\* A mutating method runs up to its append and the append fails; the method
\* returns the error of writeTransactionLocked.
WriteFails(c, fault) ==
    /\ ~ReturnsBeforeLock(c)
    /\ LET r == CallOutcome(c, [exists |-> fileExists, lg |-> log])
           tx == Transaction(NewTxId(log), CallType(c), CallPayload(c), r.players)
           file == FileAfterFault(fileExists, log, tx, fault)
       IN  /\ r.err = NoErr
           /\ fileExists' = file.exists
           /\ log' = file.lg
           /\ ret' = Returned(c.op, c.args,
                              IF fault = "open" THEN "open failed" ELSE "write failed",
                              <<>>)
    /\ UNCHANGED writes
    /\ UNCHANGED concVars
    /\ UNCHANGED memVars

NextFaults ==
    \/ \E name \in Names, playerID \in LadderIds : AddPlayer(name, playerID)
    \/ \E playerID \in LadderIds : RemovePlayer(playerID)
    \/ \E c \in LadderIds, d \in LadderIds, w \in LadderIds, s \in ScoreInputs :
          AddMatchResult(c, d, w, s)
    \/ \E txID \in 1..(Len(log) + 1) : InvalidateMatchResult(txID)
    \/ ListPlayers
    \/ \E limit \in 0..MaxLimit : GetRecentMatches(limit)
    \/ \E c \in MutatingCalls(log), fault \in Faults : WriteFails(c, fault)

SpecFaults == Init /\ [][NextFaults]_vars

\* --------------------------------------------------------- damaged log lines

\* The log file is shared with the storage medium: a stored line can come
\* back undecodable (base64 or protobuf decoding of it fails).  At most
\* MaxDamaged lines of a log are damaged.
Damaged(lg) == {i \in 1..Len(lg) : ~Decodable(lg[i])}

Damage(i) ==
    /\ Decodable(log[i])
    /\ Cardinality(Damaged(log)) < MaxDamaged
    /\ log' = [log EXCEPT ![i] = Truncated(@)]
    /\ UNCHANGED <<fileExists, ret, writes>>
    /\ UNCHANGED concVars
    /\ UNCHANGED memVars

NextDamaged ==
    \/ \E c \in Challengers, d \in LadderIds \ Challengers, w \in LadderIds,
          s \in ScoreInputs :
          AddMatchResult(c, d, w, s)
    \/ \E txID \in 1..Len(log) : InvalidateMatchResult(txID)
    \/ \E limit \in 1..MaxLimit : GetRecentMatches(limit)
    \/ \E i \in 1..Len(log) : Damage(i)

SpecDamaged == InitLadder /\ [][NextDamaged]_vars

\* ============================================================ the service
\* One set of a match as the request carries it.
SetScore(cp, dp, cdef, ddef) ==
    [challenger_points |-> cp, defender_points |-> dp,
     challenger_default |-> cdef, defender_default |-> ddef]

\* The sets long scores are made of: won by the challenger, won by the
\* defender, won by one point only, given up by the challenger, given up by
\* the defender at 11-10, given up by both.
SetInputs ==
    {SetScore(11, 5, FALSE, FALSE), SetScore(5, 11, FALSE, FALSE),
     SetScore(11, 10, FALSE, FALSE), SetScore(0, 0, TRUE, FALSE),
     SetScore(11, 10, FALSE, TRUE), SetScore(0, 0, TRUE, TRUE)}

\* More point totals, for short scores: one point apart beyond 11, below 11,
\* two apart beyond 11 for either side, a negative total.
PointInputs ==
    {SetScore(12, 11, FALSE, FALSE), SetScore(5, 2, FALSE, FALSE),
     SetScore(12, 10, FALSE, FALSE), SetScore(15, 13, FALSE, FALSE),
     SetScore(10, 12, FALSE, FALSE), SetScore(-1, 11, FALSE, FALSE)}

\* Every score of at most MaxSets sets from SetInputs, and every score of at
\* most MaxPointSets sets from SetInputs and PointInputs.
ScoreSeqs ==
    UNION {[1..k -> SetInputs] : k \in 0..MaxSets}
    \cup UNION {[1..k -> SetInputs \cup PointInputs] : k \in 0..MaxPointSets}

ScoreResult(winner, err) == [winner |-> winner, err |-> err]

\* Mutant: a default ends the match at whatever set it appears.
RECURSIVE ValidateSetsDefaultAnywhere(_, _, _, _)
ValidateSetsDefaultAnywhere(setScores, i, p1Sets, p2Sets) ==
    IF i > Len(setScores)
    THEN IF p1Sets > 3 \/ p2Sets > 3 THEN ScoreResult(0, "too many sets won")
         ELSE IF p1Sets = 3 THEN ScoreResult(1, NoErr)
         ELSE IF p2Sets = 3 THEN ScoreResult(2, NoErr)
         ELSE ScoreResult(0, "match must have a clear winner (first to 3 sets)")
    ELSE LET s == setScores[i]
             isLastSet == i = Len(setScores)
             challengerPoints == s.challenger_points
             defenderPoints == s.defender_points
             diff == IF challengerPoints - defenderPoints < 0
                     THEN defenderPoints - challengerPoints
                     ELSE challengerPoints - defenderPoints
         IN  IF s.challenger_default \/ s.defender_default
             THEN IF s.challenger_default /\ s.defender_default
                  THEN ScoreResult(0, "both players cannot default")
                  ELSE IF s.challenger_default THEN ScoreResult(2, NoErr)
                  ELSE ScoreResult(1, NoErr)
             ELSE IF challengerPoints < 0 \/ defenderPoints < 0
             THEN ScoreResult(0, "scores cannot be negative")
             ELSE IF challengerPoints < 11 /\ defenderPoints < 11
             THEN ScoreResult(0, "set must go to at least 11")
             ELSE IF diff < 2 THEN ScoreResult(0, "must win by 2 points")
             ELSE IF challengerPoints > defenderPoints
             THEN ValidateSetsDefaultAnywhere(setScores, i + 1, p1Sets + 1, p2Sets)
             ELSE ValidateSetsDefaultAnywhere(setScores, i + 1, p1Sets, p2Sets + 1)

\* Mutant: a defaulted last set counts as one more set for the other side and
\* the sets are then judged as usual.
RECURSIVE ValidateSetsCountingDefault(_, _, _, _)
ValidateSetsCountingDefault(setScores, i, p1Sets, p2Sets) ==
    IF i > Len(setScores)
    THEN IF p1Sets > 3 \/ p2Sets > 3 THEN ScoreResult(0, "too many sets won")
         ELSE IF p1Sets = 3 THEN ScoreResult(1, NoErr)
         ELSE IF p2Sets = 3 THEN ScoreResult(2, NoErr)
         ELSE ScoreResult(0, "match must have a clear winner (first to 3 sets)")
    ELSE LET s == setScores[i]
             isLastSet == i = Len(setScores)
             challengerPoints == s.challenger_points
             defenderPoints == s.defender_points
             diff == IF challengerPoints - defenderPoints < 0
                     THEN defenderPoints - challengerPoints
                     ELSE challengerPoints - defenderPoints
         IN  IF s.challenger_default \/ s.defender_default
             THEN IF ~isLastSet
                  THEN ScoreResult(0, "defaulting player must happen in the final set")
                  ELSE IF s.challenger_default /\ s.defender_default
                  THEN ScoreResult(0, "both players cannot default")
                  ELSE IF s.challenger_default
                  THEN ValidateSetsCountingDefault(setScores, i + 1, p1Sets, p2Sets + 1)
                  ELSE ValidateSetsCountingDefault(setScores, i + 1, p1Sets + 1, p2Sets)
             ELSE IF challengerPoints < 0 \/ defenderPoints < 0
             THEN ScoreResult(0, "scores cannot be negative")
             ELSE IF challengerPoints < 11 /\ defenderPoints < 11
             THEN ScoreResult(0, "set must go to at least 11")
             ELSE IF diff < 2 THEN ScoreResult(0, "must win by 2 points")
             ELSE IF challengerPoints > defenderPoints
             THEN ValidateSetsCountingDefault(setScores, i + 1, p1Sets + 1, p2Sets)
             ELSE ValidateSetsCountingDefault(setScores, i + 1, p1Sets, p2Sets + 1)

\* Mutant: a set may be won by one point.
RECURSIVE ValidateSetsNoMargin(_, _, _, _)
ValidateSetsNoMargin(setScores, i, p1Sets, p2Sets) ==
    IF i > Len(setScores)
    THEN IF p1Sets > 3 \/ p2Sets > 3 THEN ScoreResult(0, "too many sets won")
         ELSE IF p1Sets = 3 THEN ScoreResult(1, NoErr)
         ELSE IF p2Sets = 3 THEN ScoreResult(2, NoErr)
         ELSE ScoreResult(0, "match must have a clear winner (first to 3 sets)")
    ELSE LET s == setScores[i]
             isLastSet == i = Len(setScores)
             challengerPoints == s.challenger_points
             defenderPoints == s.defender_points
             diff == IF challengerPoints - defenderPoints < 0
                     THEN defenderPoints - challengerPoints
                     ELSE challengerPoints - defenderPoints
         IN  IF s.challenger_default \/ s.defender_default
             THEN IF ~isLastSet
                  THEN ScoreResult(0, "defaulting player must happen in the final set")
                  ELSE IF s.challenger_default /\ s.defender_default
                  THEN ScoreResult(0, "both players cannot default")
                  ELSE IF s.challenger_default THEN ScoreResult(2, NoErr)
                  ELSE ScoreResult(1, NoErr)
             ELSE IF challengerPoints < 0 \/ defenderPoints < 0
             THEN ScoreResult(0, "scores cannot be negative")
             ELSE IF challengerPoints < 11 /\ defenderPoints < 11
             THEN ScoreResult(0, "set must go to at least 11")
             ELSE IF diff < 1 THEN ScoreResult(0, "must win by 2 points")
             ELSE IF challengerPoints > defenderPoints
             THEN ValidateSetsNoMargin(setScores, i + 1, p1Sets + 1, p2Sets)
             ELSE ValidateSetsNoMargin(setScores, i + 1, p1Sets, p2Sets + 1)

\* The loop of ValidateScore from set i on, with the sets counted so far, and
\* the checks that follow the loop.  The points are int32 converted to int:
\* their difference does not overflow.
RECURSIVE ValidateSets(_, _, _, _)
ValidateSets(setScores, i, p1Sets, p2Sets) ==
    IF i > Len(setScores)
    THEN IF p1Sets > 3 \/ p2Sets > 3 THEN ScoreResult(0, "too many sets won")
         ELSE IF p1Sets = 3 THEN ScoreResult(1, NoErr)
         ELSE IF p2Sets = 3 THEN ScoreResult(2, NoErr)
         ELSE ScoreResult(0, "match must have a clear winner (first to 3 sets)")
    ELSE LET s == setScores[i]
             isLastSet == i = Len(setScores)
             challengerPoints == s.challenger_points
             defenderPoints == s.defender_points
             diff == IF challengerPoints - defenderPoints < 0
                     THEN defenderPoints - challengerPoints
                     ELSE challengerPoints - defenderPoints
         IN  IF s.challenger_default \/ s.defender_default
             THEN IF ~isLastSet
                  THEN ScoreResult(0, "defaulting player must happen in the final set")
                  ELSE IF s.challenger_default /\ s.defender_default
                  THEN ScoreResult(0, "both players cannot default")
                  ELSE IF s.challenger_default THEN ScoreResult(2, NoErr)
                  ELSE ScoreResult(1, NoErr)
             ELSE IF challengerPoints < 0 \/ defenderPoints < 0
             THEN ScoreResult(0, "scores cannot be negative")
             ELSE IF challengerPoints < 11 /\ defenderPoints < 11
             THEN ScoreResult(0, "set must go to at least 11")
             ELSE IF diff < 2 THEN ScoreResult(0, "must win by 2 points")
             ELSE IF challengerPoints > defenderPoints
             THEN ValidateSets(setScores, i + 1, p1Sets + 1, p2Sets)
             ELSE ValidateSets(setScores, i + 1, p1Sets, p2Sets + 1)

ValidateScore(setScores) == ValidateSets(setScores, 1, 0, 0)

\* A goroutine is about to call ValidateScore with a score.
InitScore ==
    /\ fileExists = FALSE
    /\ log = <<>>
    /\ ret = Returned("NewModel", <<>>, NoErr, <<>>)
    /\ writes = 0
    /\ mu = Unlocked
    /\ pc = [p \in Procs |-> "idle"]
    /\ \E setScores \in ScoreSeqs :
          call = [p \in Procs |->
                    IF p = "g1" THEN [op |-> "ValidateScore", args |-> <<setScores>>]
                    ELSE NoCall]
    /\ seen = [p \in Procs |-> NoFile]
    /\ Players = <<>>
    /\ Transactions = <<>>
    /\ jsonFile = <<>>

\* The call is made and returns.
Validate(p) ==
    /\ call[p].op = "ValidateScore"
    /\ LET v == ValidateScore(call[p].args[1])
       IN  ret' = Returned("ValidateScore", call[p].args, v.err, <<v.winner>>)
    /\ call' = [call EXCEPT ![p] = NoCall]
    /\ UNCHANGED <<fileExists, log, writes, mu, pc, seen>>
    /\ UNCHANGED memVars

NextScore == \E p \in Procs : Validate(p)

SpecScore == InitScore /\ [][NextScore]_vars

\* The scores the service is called with: three sets to the challenger, two
\* sets only, and a set to the challenger who then gives up.
ServiceScores ==
    {<<SetScore(11, 5, FALSE, FALSE), SetScore(11, 5, FALSE, FALSE),
       SetScore(11, 5, FALSE, FALSE)>>,
     <<SetScore(11, 5, FALSE, FALSE), SetScore(11, 5, FALSE, FALSE)>>,
     <<SetScore(11, 5, FALSE, FALSE), SetScore(0, 0, TRUE, FALSE)>>}

\* Mutant: the declared winner is not compared with the scores.
NoWinnerCheck(winnerIdx, challengerID, defenderID, winnerID) == FALSE

\* The double check of the declared winner against the side the scores name.
WinnerMismatch(winnerIdx, challengerID, defenderID, winnerID) ==
    \/ winnerIdx = 1 /\ winnerID # challengerID
    \/ winnerIdx = 2 /\ winnerID # defenderID

\* ladderpb.AddMatchResultResponse; no transaction id is 0.
AddMatchResultResponse(success, txID) == [success |-> success, transaction_id |-> txID]

\* LadderService.AddMatchResult over the snapshot-log Model.
ServiceAddMatchResult(challengerID, defenderID, winnerID, setScores) ==
    /\ LET v == ValidateScore(setScores)
           args == <<challengerID, defenderID, winnerID, setScores>>
           r == AddMatchResultOutcome(challengerID, defenderID, winnerID, setScores,
                                      fileExists, log)
           refused(err) ==
               /\ ret' = Returned("ServiceAddMatchResult", args, err,
                                  <<AddMatchResultResponse(FALSE, 0)>>)
               /\ UNCHANGED <<fileExists, log, writes>>
       IN  IF v.err # NoErr THEN refused(v.err)
           ELSE IF WinnerMismatch(v.winner, challengerID, defenderID, winnerID)
           THEN refused("scores and winner_id do not match")
           ELSE IF r.err # NoErr THEN refused(r.err)
           ELSE /\ writes < MaxLog
                /\ writes' = writes + 1
                /\ log' = writeTransactionLocked(log,
                              Transaction(NewTxId(log), "MATCH_RESULT",
                                          MatchResultPayload(challengerID, defenderID,
                                                             winnerID, setScores),
                                          r.players))
                /\ fileExists' = TRUE
                /\ ret' = Returned("ServiceAddMatchResult", args, NoErr,
                                   <<AddMatchResultResponse(TRUE, NewTxId(log))>>)
    /\ UNCHANGED concVars
    /\ UNCHANGED memVars

NextService ==
    \/ \E playerID \in LadderIds : RemovePlayer(playerID)
    \/ \E c \in Challengers, d \in LadderIds, w \in LadderIds, s \in ServiceScores :
          ServiceAddMatchResult(c, d, w, s)
    \/ \E txID \in 1..(Len(log) + 1) : InvalidateMatchResult(txID)

SpecService == InitLadder /\ [][NextService]_vars

\* ======================================================= the in-memory Model
\* The Model of server/model.go keeps the player list and the transactions in
\* memory and writes one JSON line per transaction; the lines carry no player
\* list, a Model opened on the file rebuilds the list by replaying them.

\* json.Marshal of a payload struct: its fields in declaration order.
MarshalPayload(txType, p) ==
    CASE txType = "ADD_PLAYER" -> <<p.player_id, p.name>>
      [] txType = "REMOVE_PLAYER" -> <<p.player_id>>
      [] txType = "MATCH_RESULT" ->
            <<p.challenger_id, p.defender_id, p.winner_id, p.set_scores>>

\* json.Unmarshal of the payload bytes into the struct of the transaction type.
UnmarshalPayload(txType, bytes) ==
    CASE txType = "ADD_PLAYER" -> [player_id |-> bytes[1], name |-> bytes[2]]
      [] txType = "REMOVE_PLAYER" -> [player_id |-> bytes[1]]
      [] txType = "MATCH_RESULT" ->
            [challenger_id |-> bytes[1], defender_id |-> bytes[2],
             winner_id |-> bytes[3], set_scores |-> bytes[4]]

\* json.Marshal(tx): one line of the log file.
MarshalTransaction(tx) == <<tx.id, tx.type, tx.payload>>

\* json.Unmarshal(scanner.Bytes(), &tx).
UnmarshalTransaction(line) == [id |-> line[1], type |-> line[2], payload |-> line[3]]

\* The Transaction value a mutating method builds; Payload holds the bytes.
MemTransaction(id, txType, p) ==
    [id |-> id, type |-> txType, payload |-> MarshalPayload(txType, p)]

\* Removes the first player with this id and re-ranks the players after it;
\* does nothing when there is no such player.
removePlayerInternal(players, playerID) ==
    LET idx == FirstIdx(players, playerID)
    IN  IF idx = 0 THEN players
        ELSE [i \in 1..(Len(players) - 1) |->
                IF i < idx THEN players[i]
                ELSE [players[i + 1] EXCEPT !.rank = i]]

\* The winner, when ranked below the loser, takes the loser's place and the
\* players in between move down one; does nothing when a side is not on the
\* ladder.
applyMatchResultInternal(players, challengerID, defenderID, winnerID) ==
    LET challengerIdx == LastIdx(players, challengerID)
        defenderIdx == LastIdx(players, defenderID)
        winnerIdx == IF winnerID = challengerID THEN challengerIdx ELSE defenderIdx
        loserIdx == IF winnerID = challengerID THEN defenderIdx ELSE challengerIdx
    IN  IF challengerIdx = 0 \/ defenderIdx = 0 THEN players
        ELSE IF winnerIdx > loserIdx
        THEN [i \in 1..Len(players) |->
                IF i = loserIdx THEN [players[winnerIdx] EXCEPT !.rank = i]
                ELSE IF i > loserIdx /\ i <= winnerIdx
                     THEN [players[i - 1] EXCEPT !.rank = i]
                ELSE players[i]]
        ELSE players

\* Applies one transaction to the in-memory player list.
applyTransaction(tx, players) ==
    LET p == UnmarshalPayload(tx.type, tx.payload)
    IN  CASE tx.type = "ADD_PLAYER" ->
                Append(players, [id |-> p.player_id, name |-> p.name,
                                 rank |-> Len(players) + 1])
          [] tx.type = "REMOVE_PLAYER" -> removePlayerInternal(players, p.player_id)
          [] tx.type = "MATCH_RESULT" ->
                applyMatchResultInternal(players, p.challenger_id, p.defender_id,
                                         p.winner_id)
          [] OTHER -> players

\* The player list after the first n transactions are applied, oldest first,
\* to an empty list.
RECURSIVE Rebuild(_, _)
Rebuild(transactions, n) ==
    IF n = 0 THEN <<>>
    ELSE applyTransaction(transactions[n], Rebuild(transactions, n - 1))

\* loadState: the state a Model has after it reads the file; a missing file
\* and an empty one both give the empty ladder.
loadState(file) ==
    LET txs == [i \in 1..Len(file) |-> UnmarshalTransaction(file[i])]
    IN  [Players |-> Rebuild(txs, Len(txs)), Transactions |-> txs]

\* The slice ListPlayers returns: a copy of the player list.
CopyOfPlayers(players) == [i \in 1..Len(players) |-> players[i]]

\* Mutant: InvalidateMatchResult leaves the file as it is.
LogFileNotRewritten(transactions) == jsonFile

\* The file after InvalidateMatchResult has rewritten it: one line per
\* remaining transaction.
RewriteLogFile(transactions) ==
    [i \in 1..Len(transactions) |-> MarshalTransaction(transactions[i])]

\* Index of the first transaction with this id, 0 when there is none.
TxIdx(transactions, txID) ==
    IF \E i \in 1..Len(transactions) : transactions[i].id = txID
    THEN CHOOSE i \in 1..Len(transactions) :
            /\ transactions[i].id = txID
            /\ \A j \in 1..(i - 1) : transactions[j].id # txID
    ELSE 0

\* append(m.Transactions[:txIdx], m.Transactions[txIdx+1:]...)
WithoutTx(transactions, idx) ==
    [i \in 1..(Len(transactions) - 1) |->
        IF i < idx THEN transactions[i] ELSE transactions[i + 1]]

\* The backward scan of GetRecentMatches over the cached transactions.
RECURSIVE MemScanMatches(_, _, _, _, _)
MemScanMatches(transactions, i, count, results, limit) ==
    IF count >= limit \/ i = 0 THEN results
    ELSE LET tx == transactions[i]
             p == UnmarshalPayload(tx.type, tx.payload)
         IN  IF tx.type = "MATCH_RESULT"
             THEN MemScanMatches(transactions, i - 1, count + 1,
                                 Append(results,
                                        [challenger_id |-> p.challenger_id,
                                         defender_id |-> p.defender_id,
                                         winner_id |-> p.winner_id,
                                         set_scores |-> p.set_scores,
                                         transaction_id |-> tx.id]),
                                 limit)
             ELSE MemScanMatches(transactions, i - 1, count, results, limit)

\* uuid.New() for a transaction: an id no transaction has had.
MemNewTxId == writes + 1

MemUsedPlayerIds ==
    {Transactions[i].payload[1] :
        i \in {j \in 1..Len(Transactions) : Transactions[j].type = "ADD_PLAYER"}}

\* A Model opened on a path where no log file exists yet.
InitMemory ==
    /\ fileExists = FALSE
    /\ log = <<>>
    /\ ret = Returned("NewModel", <<>>, NoErr, <<>>)
    /\ writes = 0
    /\ mu = Unlocked
    /\ pc = [p \in Procs |-> "idle"]
    /\ call = [p \in Procs |-> NoCall]
    /\ seen = [p \in Procs |-> NoFile]
    /\ Players = <<>>
    /\ Transactions = <<>>
    /\ jsonFile = <<>>

\* appendTransaction: the line is written, the transaction applied to the
\* player list and added to the cache.
appendTransaction(tx) ==
    /\ writes < MaxTx
    /\ writes' = writes + 1
    /\ jsonFile' = Append(jsonFile, MarshalTransaction(tx))
    /\ Players' = applyTransaction(tx, Players)
    /\ Transactions' = Append(Transactions, tx)

MemReject(op, args, err) ==
    /\ ret' = Returned(op, args, err, <<>>)
    /\ UNCHANGED <<writes, Players, Transactions, jsonFile>>

MemAddPlayer(name, playerID) ==
    /\ playerID = "" => \E g \in GeneratedIds : g \notin MemUsedPlayerIds
    /\ LET pid == IF playerID = ""
                  THEN CHOOSE g \in GeneratedIds : g \notin MemUsedPlayerIds
                  ELSE playerID
       IN  IF \E i \in 1..Len(Players) : Players[i].id = pid
           THEN MemReject("AddPlayer", <<name, playerID>>, "player ID already exists")
           ELSE /\ appendTransaction(MemTransaction(MemNewTxId, "ADD_PLAYER",
                                                    AddPlayerPayload(name, pid)))
                /\ ret' = Returned("AddPlayer", <<name, playerID>>, NoErr,
                                   <<Players'[Len(Players')]>>)
    /\ UNCHANGED <<logVars, concVars>>

MemRemovePlayer(playerID) ==
    /\ IF ~ \E i \in 1..Len(Players) : Players[i].id = playerID
       THEN MemReject("RemovePlayer", <<playerID>>, "player not found")
       ELSE /\ appendTransaction(MemTransaction(MemNewTxId, "REMOVE_PLAYER",
                                                RemovePlayerPayload(playerID)))
            /\ ret' = Returned("RemovePlayer", <<playerID>>, NoErr, <<>>)
    /\ UNCHANGED <<logVars, concVars>>

MemAddMatchResult(challengerID, defenderID, winnerID, setScores) ==
    /\ IF WinnerIsNoSide(challengerID, defenderID, winnerID)
       THEN MemReject("AddMatchResult", <<challengerID, defenderID, winnerID>>,
                      "winner must be one of the players")
       ELSE /\ appendTransaction(
                   MemTransaction(MemNewTxId, "MATCH_RESULT",
                                  MatchResultPayload(challengerID, defenderID,
                                                     winnerID, setScores)))
            /\ ret' = Returned("AddMatchResult",
                               <<challengerID, defenderID, winnerID>>, NoErr,
                               <<MemNewTxId>>)
    /\ UNCHANGED <<logVars, concVars>>

\* The transaction with this id, whatever its type, leaves the cache; the
\* file is rewritten and the player list rebuilt from the transactions left.
MemInvalidateMatchResult(txID) ==
    /\ LET txIdx == TxIdx(Transactions, txID)
       IN  IF txIdx = 0
           THEN MemReject("InvalidateMatchResult", <<txID>>, "transaction not found")
           ELSE LET rest == WithoutTx(Transactions, txIdx)
                IN  /\ Transactions' = rest
                    /\ jsonFile' = RewriteLogFile(rest)
                    /\ Players' = Rebuild(rest, Len(rest))
                    /\ ret' = Returned("InvalidateMatchResult", <<txID>>, NoErr, <<>>)
                    /\ UNCHANGED writes
    /\ UNCHANGED <<logVars, concVars>>

MemListPlayers ==
    /\ ret' = Returned("ListPlayers", <<>>, NoErr, CopyOfPlayers(Players))
    /\ UNCHANGED <<writes, logVars, concVars, memVars>>

MemGetRecentMatches(limit) ==
    /\ ret' = Returned("GetRecentMatches", <<limit>>, NoErr,
                       MemScanMatches(Transactions, Len(Transactions), 0, <<>>, limit))
    /\ UNCHANGED <<writes, logVars, concVars, memVars>>

\* A second Model is opened on the path of the first, which stays as it is;
\* the call returns what the second Model's ListPlayers gives.
NewModel ==
    /\ ret' = Returned("NewModel", <<>>, NoErr,
                       CopyOfPlayers(loadState(jsonFile).Players))
    /\ UNCHANGED <<writes, logVars, concVars, memVars>>

NextMemory ==
    \/ \E name \in Names, playerID \in LadderIds \cup {""} : MemAddPlayer(name, playerID)
    \/ \E playerID \in LadderIds \cup GeneratedIds : MemRemovePlayer(playerID)
    \/ \E c \in LadderIds, d \in LadderIds, w \in LadderIds, s \in ScoreInputs :
          MemAddMatchResult(c, d, w, s)
    \/ \E txID \in 1..(writes + 1) : MemInvalidateMatchResult(txID)
    \/ MemListPlayers
    \/ \E limit \in 0..MaxLimit : MemGetRecentMatches(limit)
    \/ NewModel

SpecMemory == InitMemory /\ [][NextMemory]_vars

\* ------------------------------- the in-memory Model with concurrent callers
\* AddPlayer and RemovePlayer look at m.Players under the read lock, release
\* it, and only then call appendTransaction, which takes the write lock; an
\* AddPlayer takes the read lock once more to read the player it returns.
\* Each of these critical sections is one step of the calling goroutine, so
\* the mutex is free between steps and other goroutines run in between.
MemCalls ==
    {[op |-> "AddPlayer", args |-> <<name, playerID>>] :
        name \in Names, playerID \in LadderIds}
    \cup {[op |-> "RemovePlayer", args |-> <<playerID>>] : playerID \in LadderIds}

MemCallType(c) == IF c.op = "AddPlayer" THEN "ADD_PLAYER" ELSE "REMOVE_PLAYER"

MemCallPayload(c) ==
    IF c.op = "AddPlayer" THEN AddPlayerPayload(c.args[1], c.args[2])
    ELSE RemovePlayerPayload(c.args[1])

\* The player id the call is about.
MemCallPlayer(c) == IF c.op = "AddPlayer" THEN c.args[2] ELSE c.args[1]

\* A goroutine enters AddPlayer or RemovePlayer.
MemCall(p, c) ==
    /\ pc[p] = "idle"
    /\ writes + Cardinality(InFlight) < MaxTx
    /\ pc' = [pc EXCEPT ![p] = "check"]
    /\ call' = [call EXCEPT ![p] = c]
    /\ UNCHANGED <<ret, writes, mu, seen, logVars, memVars>>

\* The loop over m.Players under the read lock: AddPlayer returns an error
\* when the id is there, RemovePlayer when it is not.
MemCheck(p) ==
    /\ pc[p] = "check"
    /\ LET c == call[p]
           found == \E i \in 1..Len(Players) : Players[i].id = MemCallPlayer(c)
       IN  IF c.op = "AddPlayer" /\ found
           THEN /\ ret' = Returned(c.op, c.args, "player ID already exists", <<>>)
                /\ pc' = [pc EXCEPT ![p] = "idle"]
                /\ call' = [call EXCEPT ![p] = NoCall]
           ELSE IF c.op = "RemovePlayer" /\ ~found
           THEN /\ ret' = Returned(c.op, c.args, "player not found", <<>>)
                /\ pc' = [pc EXCEPT ![p] = "idle"]
                /\ call' = [call EXCEPT ![p] = NoCall]
           ELSE /\ pc' = [pc EXCEPT ![p] = "append"]
                /\ UNCHANGED <<ret, call>>
    /\ UNCHANGED <<writes, mu, seen, logVars, memVars>>

\* appendTransaction under the write lock; RemovePlayer returns its result.
MemAppend(p) ==
    /\ pc[p] = "append"
    /\ LET c == call[p]
       IN  /\ appendTransaction(MemTransaction(MemNewTxId, MemCallType(c),
                                               MemCallPayload(c)))
           /\ IF c.op = "AddPlayer"
              THEN /\ pc' = [pc EXCEPT ![p] = "added"]
                   /\ UNCHANGED <<ret, call>>
              ELSE /\ ret' = Returned(c.op, c.args, NoErr, <<>>)
                   /\ pc' = [pc EXCEPT ![p] = "idle"]
                   /\ call' = [call EXCEPT ![p] = NoCall]
    /\ UNCHANGED <<mu, seen, logVars>>

\* AddPlayer reads the last entry of m.Players under the read lock and
\* returns it; on an empty list the index is out of range and the read panics.
MemReturnAdded(p) ==
    /\ pc[p] = "added"
    /\ LET c == call[p]
       IN  ret' = IF Len(Players) = 0
                  THEN Returned(c.op, c.args, "panic: index out of range", <<>>)
                  ELSE Returned(c.op, c.args, NoErr, <<Players[Len(Players)]>>)
    /\ pc' = [pc EXCEPT ![p] = "idle"]
    /\ call' = [call EXCEPT ![p] = NoCall]
    /\ UNCHANGED <<writes, mu, seen, logVars, memVars>>

NextMemConcurrent ==
    \/ \E p \in Procs, c \in MemCalls : MemCall(p, c)
    \/ \E p \in Procs : MemCheck(p)
    \/ \E p \in Procs : MemAppend(p)
    \/ \E p \in Procs : MemReturnAdded(p)

SpecMemConcurrent == InitMemory /\ [][NextMemConcurrent]_vars

\* ============================================================== properties
Ids(players) == {players[i].id : i \in 1..Len(players)}

\* The rank field of the player with this id.
RankOf(players, id) == players[FirstIdx(players, id)].rank

\* The player list before record i of the log was applied.
SnapshotBefore(lg, i) == IF i > 1 THEN lg[i - 1].player_list ELSE <<>>

LastRecord == log[Len(log)]

WriteOps == {"AddPlayer", "RemovePlayer", "AddMatchResult", "InvalidateMatchResult"}

\* The targets of the INVALIDATE_MATCH records among the first n records.
InvalidatedBefore(lg, n) ==
    {lg[i].payload.invalidated_transaction_id :
        i \in {j \in 1..n : lg[j].type = "INVALIDATE_MATCH"}}

\* The ladder rebuilt from the empty one by the first n records, oldest
\* first, leaving out the excluded ids and the INVALIDATE_MATCH records.
RECURSIVE ReplayExcluding(_, _, _)
ReplayExcluding(lg, n, excluded) ==
    IF n = 0 THEN <<>>
    ELSE LET before == ReplayExcluding(lg, n - 1, excluded)
             t == lg[n]
             r == applyTransactionLogic(t.type, t.payload, before)
         IN  IF t.type = "INVALIDATE_MATCH" \/ t.id \in excluded \/ r.err # NoErr
             THEN before
             ELSE r.players

\* C1: every INVALIDATE_MATCH record holds the ladder rebuilt from the empty
\* one by all earlier ADD_PLAYER, REMOVE_PLAYER and MATCH_RESULT records except
\* its target and the matches invalidated before it.
C1_InvalidateAsIfNeverHappened ==
    \A i \in 1..Len(log) :
        log[i].type = "INVALIDATE_MATCH" =>
            storageToLadder(log[i].player_list) =
                ReplayExcluding(log, i - 1,
                    InvalidatedBefore(log, i - 1)
                        \cup {log[i].payload.invalidated_transaction_id})

DenseRanks(players) == \A j \in 1..Len(players) : players[j].rank = j

\* C2: in the snapshot of every record, and in every list ListPlayers
\* returns, the player at position j holds rank j, so the ranks are 1..N.
C2_RanksArePositions ==
    /\ \A i \in 1..Len(log) : DenseRanks(log[i].player_list)
    /\ ret.op = "ListPlayers" => DenseRanks(ret.out)

\* C2 witness: ListPlayers answered after an invalidation rebuilt a ladder
\* of at least two players.
C2_Witness ==
    /\ ret.op = "ListPlayers"
    /\ Len(ret.out) >= 2
    /\ Len(log) > 0
    /\ LastRecord.type = "INVALIDATE_MATCH"

Loser(p) == IF p.winner_id = p.challenger_id THEN p.defender_id ELSE p.challenger_id

\* The players a, b, c in ranks 1, 2, 3, whatever their names.
IsOrder(players, a, b, c) ==
    /\ Len(players) = 3
    /\ players[1].id = a /\ players[1].rank = 1
    /\ players[2].id = b /\ players[2].rank = 2
    /\ players[3].id = c /\ players[3].rank = 3

\* C3: a recorded match whose winner was ranked below the loser puts the
\* winner on the loser's rank, moves everyone from the loser's rank up to the
\* winner's old rank one rank down and leaves all other ranks alone; Charlie
\* beating Alice in Alice, Bob, Charlie gives Charlie, Alice, Bob.
C3_WinnerTakesLosersRank ==
    [][(ret'.op = "AddMatchResult" /\ ret'.err = NoErr) =>
        LET old == CurrentState(fileExists, log).players
            new == CurrentState(fileExists', log').players
            p == log'[Len(log')].payload
            w == RankOf(old, p.winner_id)
            l == RankOf(old, Loser(p))
        IN  w > l =>
              /\ Ids(new) = Ids(old) /\ Len(new) = Len(old)
              /\ RankOf(new, p.winner_id) = l
              /\ \A k \in 1..Len(old) :
                    LET r == old[k].rank
                    IN  /\ (l <= r /\ r < w) => RankOf(new, old[k].id) = r + 1
                        /\ (r < l \/ r > w) => RankOf(new, old[k].id) = r
              /\ (IsOrder(old, "alice", "bob", "charlie")
                    /\ p.winner_id = "charlie" /\ Loser(p) = "alice")
                   => IsOrder(new, "charlie", "alice", "bob")]_vars

\* C3 witness: Charlie has just beaten Alice in Alice, Bob, Charlie.
C3_Witness ==
    /\ ret.op = "AddMatchResult" /\ ret.err = NoErr
    /\ Len(log) >= 2
    /\ LastRecord.type = "MATCH_RESULT"
    /\ LastRecord.payload.winner_id = "charlie"
    /\ Loser(LastRecord.payload) = "alice"
    /\ IsOrder(log[Len(log) - 1].player_list, "alice", "bob", "charlie")

IsPrefix(s, t) == Len(s) <= Len(t) /\ \A i \in 1..Len(s) : t[i] = s[i]

\* C5: a call never changes or removes a record of the log; a successful
\* mutating call appends exactly one record; a successful
\* InvalidateMatchResult(T) appends an INVALIDATE_MATCH record naming T and
\* the MATCH_RESULT record of T stays where it was.
C5_AppendOnly ==
    [][/\ IsPrefix(log, log')
       /\ Len(log') <= Len(log) + 1
       /\ (ret'.op \in WriteOps /\ ret'.err = NoErr) => Len(log') = Len(log) + 1
       /\ (ret'.op = "InvalidateMatchResult" /\ ret'.err = NoErr) =>
            /\ log'[Len(log')].type = "INVALIDATE_MATCH"
            /\ log'[Len(log')].payload.invalidated_transaction_id = ret'.args[1]
            /\ \E i \in 1..Len(log) :
                  /\ log[i].id = ret'.args[1]
                  /\ log[i].type = "MATCH_RESULT"
                  /\ log'[i] = log[i]]_vars

\* C5 witness: an invalidation has just been appended behind its target and
\* at least one more record.
C5_Witness ==
    /\ ret.op = "InvalidateMatchResult" /\ ret.err = NoErr
    /\ Len(log) >= 3
    /\ LastRecord.type = "INVALIDATE_MATCH"
    /\ \E i \in 1..(Len(log) - 2) :
          /\ log[i].id = LastRecord.payload.invalidated_transaction_id
          /\ log[i].type = "MATCH_RESULT"

\* C6: no match that GetRecentMatches returns is the target of an
\* INVALIDATE_MATCH record of the log.
C6_RecentMatchesAreValid ==
    ret.op = "GetRecentMatches" =>
        \A k \in 1..Len(ret.out) :
            ret.out[k].transaction_id \notin InvalidatedBefore(log, Len(log))

\* C6 witness: GetRecentMatches returned a match while an older match, which
\* the limit would have let through, stands invalidated.
C6_Witness ==
    /\ ret.op = "GetRecentMatches"
    /\ Len(ret.out) = 1
    /\ ret.args[1] = 2
    /\ \E i \in 1..Len(log) :
          /\ log[i].type = "MATCH_RESULT"
          /\ log[i].id \in InvalidatedBefore(log, Len(log))

\* The calls C7 names, judged against the ordering they meet.
MustBeRejected(r, players) ==
    \/ r.op = "AddPlayer" /\ r.args[2] \in Ids(players)
    \/ r.op = "RemovePlayer" /\ r.args[1] \notin Ids(players)
    \/ r.op = "AddMatchResult" /\ (r.args[1] \notin Ids(players) \/ r.args[2] \notin Ids(players))
    \/ r.op = "AddMatchResult" /\ r.args[3] \notin {r.args[1], r.args[2]}

\* C7: AddPlayer of an id on the ladder, RemovePlayer of an id not on it,
\* AddMatchResult naming a side not on it or a winner that is neither side:
\* each returns an error, appends nothing and leaves ListPlayers as it was.
C7_RejectedCallsChangeNothing ==
    [][MustBeRejected(ret', CurrentState(fileExists, log).players) =>
        /\ ret'.err # NoErr
        /\ log' = log
        /\ fileExists' = fileExists
        /\ CurrentState(fileExists', log').players
             = CurrentState(fileExists, log).players]_vars

\* C7 witness: a match was refused because one side had been removed.
C7_Witness ==
    /\ ret.op = "AddMatchResult"
    /\ ret.err = "challenger or defender not found"
    /\ \E i \in 1..Len(log) :
          /\ log[i].type = "REMOVE_PLAYER"
          /\ log[i].payload.player_id \in {ret.args[1], ret.args[2]}
    /\ Len(CurrentState(fileExists, log).players) >= 1

\* C8: InvalidateMatchResult fails with "transaction not found" when no
\* record carries the id and with "can only invalidate match results" when
\* the record that carries it is no MATCH_RESULT; nothing is appended.
C8_InvalidateErrors ==
    [][ret'.op = "InvalidateMatchResult" =>
        LET idx == ScanForTarget(log, ret'.args[1])
        IN  /\ idx = 0 => (ret'.err = "transaction not found" /\ log' = log)
            /\ (idx # 0 /\ log[idx].type # "MATCH_RESULT") =>
                  (ret'.err = "can only invalidate match results" /\ log' = log)]_vars

\* C9: when a match is recorded and invalidated by the very next call, the
\* snapshot of the invalidation is the snapshot from before the match.
C9_RecordThenInvalidate ==
    \A i \in 2..Len(log) :
        (/\ log[i].type = "INVALIDATE_MATCH"
         /\ log[i - 1].type = "MATCH_RESULT"
         /\ log[i].payload.invalidated_transaction_id = log[i - 1].id)
        => log[i].player_list = SnapshotBefore(log, i - 1)

\* C9 witness: a match that changed the ladder was invalidated right away.
C9_Witness ==
    /\ Len(log) >= 2
    /\ LastRecord.type = "INVALIDATE_MATCH"
    /\ log[Len(log) - 1].type = "MATCH_RESULT"
    /\ LastRecord.payload.invalidated_transaction_id = log[Len(log) - 1].id
    /\ log[Len(log) - 1].player_list # SnapshotBefore(log, Len(log) - 1)
    /\ ret.op = "InvalidateMatchResult" /\ ret.err = NoErr

\* C4: with concurrent callers, the snapshot of every ADD_PLAYER,
\* REMOVE_PLAYER and MATCH_RESULT record is what its type and payload make of
\* the snapshot of the record before it: no update is lost.
C4_NoLostUpdate ==
    \A i \in 1..Len(log) :
        log[i].type \in {"ADD_PLAYER", "REMOVE_PLAYER", "MATCH_RESULT"} =>
            LET r == applyTransactionLogic(log[i].type, log[i].payload,
                                           storageToLadder(SnapshotBefore(log, i)))
            IN  /\ r.err = NoErr
                /\ log[i].player_list = ladderToStorage(r.players)

\* C4 witness: a goroutine has appended a record that changed the ladder
\* while another one, which entered its method meanwhile, waits for the lock.
C4_Witness ==
    \E p \in Procs, q \in Procs :
        /\ pc[p] = "unlock" /\ pc[q] = "lock"
        /\ Len(log) >= 2
        /\ LastRecord.type \in {"ADD_PLAYER", "REMOVE_PLAYER", "MATCH_RESULT"}
        /\ LastRecord.player_list # SnapshotBefore(log, Len(log))

\* C10: a Model opened on the log file another Model has written lists the same
\* players, with the same ids, names and ranks in the same positions, as the
\* Model that wrote the file, removed and invalidated transactions included.
C10_ReloadGivesSameLadder ==
    ret.op = "NewModel" => ret.out = CopyOfPlayers(Players)

\* A second Model has been opened after the third transaction, appended to the
\* ladder of alice and bob, was invalidated.
C10_Witness ==
    /\ ret.op = "NewModel"
    /\ writes = 3
    /\ Len(Transactions) = 2
    /\ Transactions[1].payload[1] = "alice"
    /\ Len(Players) = 2
    /\ Players[1].id = "alice" /\ Players[2].id = "bob"
    /\ ret.out = Players

\* C11: once a write has succeeded its record is the last of the log, and a
\* ListPlayers call that follows, with no write in between, returns the
\* player list embedded in that record.
C11_ReadsSeeLastWrite ==
    /\ (ret.op \in WriteOps /\ ret.err = NoErr) =>
          /\ Len(log) > 0
          /\ LastRecord.type = CallType([op |-> ret.op, args |-> ret.args])
    /\ (ret.op = "ListPlayers" /\ Len(log) > 0) =>
          /\ ret.err = NoErr
          /\ ret.out = storageToLadder(LastRecord.player_list)

\* C11 witness: ListPlayers answered after a RemovePlayer that left players
\* on the ladder.
C11_Witness ==
    /\ ret.op = "ListPlayers"
    /\ Len(log) >= 3
    /\ LastRecord.type = "REMOVE_PLAYER"
    /\ Len(ret.out) >= 1
    /\ ret.out # storageToLadder(log[Len(log) - 1].player_list)


\* C12: a MATCH_RESULT record whose two sides were on the ladder, the winner
\* at a rank equal to or better than the loser's, carries the player list of
\* the record before it unchanged; and AddMatchResult with both sides on the
\* ladder and one of them as the winner is not refused.
C12_NoPromotionKeepsOrdering ==
    /\ \A i \in 1..Len(log) :
          LET before == SnapshotBefore(log, i)
              p == log[i].payload
          IN  (/\ log[i].type = "MATCH_RESULT"
               /\ {p.challenger_id, p.defender_id} \subseteq Ids(before)
               /\ RankOf(before, p.winner_id) <= RankOf(before, Loser(p)))
              => log[i].player_list = before
    /\ (/\ ret.op = "AddMatchResult"
        /\ {ret.args[1], ret.args[2]} \subseteq Ids(CurrentState(fileExists, log).players)
        /\ ret.args[3] \in {ret.args[1], ret.args[2]})
       => /\ ret.err = NoErr
          /\ LastRecord.type = "MATCH_RESULT"
          /\ LastRecord.id = ret.out[1]

\* C12 witness: the better-ranked of two different players has just won and
\* the match stands in the log.
C12_Witness ==
    /\ ret.op = "AddMatchResult" /\ ret.err = NoErr
    /\ Len(log) >= 3
    /\ LastRecord.type = "MATCH_RESULT"
    /\ LastRecord.payload.challenger_id # LastRecord.payload.defender_id
    /\ RankOf(log[Len(log) - 1].player_list, LastRecord.payload.winner_id)
         < RankOf(log[Len(log) - 1].player_list, Loser(LastRecord.payload))
    /\ LastRecord.player_list = log[Len(log) - 1].player_list


\* The position of the player with this id, 0 when there is none.
PosOf(players, id) == FirstIdx(players, id)

\* C13: a REMOVE_PLAYER record carries the player list of the record before
\* it without the removed player: one player fewer, the others in the same
\* relative order, players ranked better keep their rank, players ranked
\* worse move up by exactly one, and the ranks are 1..N-1.
C13_RemoveClosesTheGap ==
    \A i \in 1..Len(log) :
        log[i].type = "REMOVE_PLAYER" =>
            LET before == SnapshotBefore(log, i)
                after == log[i].player_list
                gone == log[i].payload.player_id
            IN  /\ gone \in Ids(before)
                /\ Len(after) = Len(before) - 1
                /\ gone \notin Ids(after)
                /\ Ids(after) = Ids(before) \ {gone}
                /\ \A k \in 1..Len(before) :
                      before[k].id # gone =>
                        LET q == after[PosOf(after, before[k].id)]
                        IN  /\ q.name = before[k].name
                            /\ before[k].rank < RankOf(before, gone) =>
                                  q.rank = before[k].rank
                            /\ before[k].rank > RankOf(before, gone) =>
                                  q.rank = before[k].rank - 1
                /\ \A k \in 1..Len(before), m \in 1..Len(before) :
                      (k < m /\ before[k].id # gone /\ before[m].id # gone) =>
                          PosOf(after, before[k].id) < PosOf(after, before[m].id)
                /\ DenseRanks(after)

\* C13 witness: the player in the middle of a ladder of three has just been
\* removed.
C13_Witness ==
    /\ ret.op = "RemovePlayer" /\ ret.err = NoErr
    /\ Len(log) >= 4
    /\ LastRecord.type = "REMOVE_PLAYER"
    /\ Len(log[Len(log) - 1].player_list) = 3
    /\ RankOf(log[Len(log) - 1].player_list, LastRecord.payload.player_id) = 2
    /\ Len(LastRecord.player_list) = 2


\* C14: an ADD_PLAYER record carries the player list of the record before it
\* with the new player, of the given id and name, appended at rank N+1 and
\* every other player as it was; AddPlayer called with an id returns that
\* last player.
C14_AddAppendsAtBottom ==
    /\ \A i \in 1..Len(log) :
          log[i].type = "ADD_PLAYER" =>
              LET before == SnapshotBefore(log, i)
                  after == log[i].player_list
                  p == log[i].payload
              IN  /\ p.player_id \notin Ids(before)
                  /\ Len(after) = Len(before) + 1
                  /\ \A k \in 1..Len(before) : after[k] = before[k]
                  /\ after[Len(after)] = [id |-> p.player_id, name |-> p.name,
                                          rank |-> Len(before) + 1]
    /\ (ret.op = "AddPlayer" /\ ret.err = NoErr /\ ret.args[2] # "") =>
          /\ LastRecord.type = "ADD_PLAYER"
          /\ ret.out = <<[id |-> ret.args[2], name |-> ret.args[1],
                          rank |-> Len(SnapshotBefore(log, Len(log))) + 1]>>
          /\ LastRecord.player_list[Len(LastRecord.player_list)] = ret.out[1]

\* C14 witness: a third player has just been added under a ladder of two.
C14_Witness ==
    /\ ret.op = "AddPlayer" /\ ret.err = NoErr /\ ret.args[2] # ""
    /\ Len(log) >= 3
    /\ Len(log[Len(log) - 1].player_list) = 2
    /\ Len(LastRecord.player_list) = 3
    /\ ret.out[1].rank = 3


\* No two positions of the list hold the same id.
UniqueIds(players) ==
    \A j \in 1..Len(players), k \in 1..Len(players) :
        players[j].id = players[k].id => j = k

\* C15: no player list in the log, those written by an invalidation's replay
\* included, holds two players with the same id.
C15_PlayerIdsAreUnique ==
    \A i \in 1..Len(log) : UniqueIds(log[i].player_list)

\* C15 witness: an invalidation has replayed an ADD_PLAYER record over the
\* ladder from before its target and left at least two players.
C15_Witness ==
    /\ Len(log) >= 4
    /\ LastRecord.type = "INVALIDATE_MATCH"
    /\ Len(LastRecord.player_list) >= 2
    /\ \E i \in 1..Len(log), j \in 1..Len(log) :
          /\ i < j /\ j < Len(log)
          /\ log[i].id = LastRecord.payload.invalidated_transaction_id
          /\ log[j].type = "ADD_PLAYER"


\* The positions of the MATCH_RESULT records no INVALIDATE_MATCH record names.
ValidMatchIdx(lg) ==
    {i \in 1..Len(lg) :
        lg[i].type = "MATCH_RESULT" /\ lg[i].id \notin InvalidatedBefore(lg, Len(lg))}

Min(a, b) == IF a < b THEN a ELSE b

\* C16: GetRecentMatches(limit) returns min(limit, k) matches, k being the
\* number of MATCH_RESULT records not invalidated; the j-th of them is the
\* j-th newest such record and carries that record's id, sides, winner and
\* scores; for limit <= 0 nothing is returned.
C16_RecentMatchesNewestFirst ==
    ret.op = "GetRecentMatches" =>
        LET valid == ValidMatchIdx(log)
            n == IF ret.args[1] <= 0 THEN 0
                 ELSE Min(ret.args[1], Cardinality(valid))
        IN  /\ ret.err = NoErr
            /\ Len(ret.out) = n
            /\ \A j \in 1..n :
                  \E i \in valid :
                      /\ Cardinality({m \in valid : m > i}) = j - 1
                      /\ ret.out[j].transaction_id = log[i].id
                      /\ ret.out[j].challenger_id = log[i].payload.challenger_id
                      /\ ret.out[j].defender_id = log[i].payload.defender_id
                      /\ ret.out[j].winner_id = log[i].payload.winner_id
                      /\ ret.out[j].set_scores = log[i].payload.set_scores

\* C16 witness: of three recorded matches the middle one is invalidated and
\* GetRecentMatches(2) returned the newest and the oldest, in that order.
C16_Witness ==
    /\ ret.op = "GetRecentMatches" /\ ret.args[1] = 2
    /\ Len(ret.out) = 2
    /\ Cardinality(ValidMatchIdx(log)) = 2
    /\ ret.out[1].transaction_id > ret.out[2].transaction_id + 1
    /\ \E i \in 1..Len(log) : log[i].type = "INVALIDATE_MATCH"



\* C17: when the last line of the log cannot be decoded, CurrentState returns
\* an error and ListPlayers reports a failure to its caller.
C17_CorruptTailIsSurfaced ==
    (Len(log) > 0 /\ ~Decodable(LastRecord)) =>
        /\ CurrentState(fileExists, log).err # NoErr
        /\ ret.op = "ListPlayers" => ret.err # NoErr

\* C18: no line of the log is a partially written record: a failed append
\* leaves the file as it was, a successful one leaves the complete record as
\* the last line.
C18_AppendAllOrNothing ==
    /\ \A i \in 1..Len(log) : Decodable(log[i])
    /\ (ret.op \in WriteOps /\ ret.err = NoErr) =>
          (Len(log) > 0 /\ LastRecord.type = CallType([op |-> ret.op, args |-> ret.args]))


NoDefault(setScores) ==
    \A j \in 1..Len(setScores) :
        ~setScores[j].challenger_default /\ ~setScores[j].defender_default

\* The sets among the first k that the side has won: 1 is the challenger,
\* 2 the defender.
SetsWon(setScores, k, side) ==
    Cardinality({j \in 1..k :
        IF side = 1
        THEN setScores[j].challenger_points > setScores[j].defender_points
        ELSE setScores[j].challenger_points < setScores[j].defender_points})

\* The side that has three sets at a point of the sequence where the other
\* side has not; 0 when no side gets to three.
FirstToThree(setScores) ==
    IF \E k \in 1..Len(setScores) :
          SetsWon(setScores, k, 1) = 3 /\ SetsWon(setScores, k, 2) < 3
    THEN 1
    ELSE IF \E k \in 1..Len(setScores) :
               SetsWon(setScores, k, 2) = 3 /\ SetsWon(setScores, k, 1) < 3
    THEN 2
    ELSE 0

\* C20: for a score without a defaulted set, ValidateScore fails when a side
\* has won more than three sets or no side has won exactly three, and when
\* it succeeds it returns the side that got to three sets first.
C20_FirstToThreeSets ==
    (ret.op = "ValidateScore" /\ NoDefault(ret.args[1])) =>
        LET setScores == ret.args[1]
            p1 == SetsWon(setScores, Len(setScores), 1)
            p2 == SetsWon(setScores, Len(setScores), 2)
        IN  /\ (p1 > 3 \/ p2 > 3 \/ (p1 # 3 /\ p2 # 3)) => ret.err # NoErr
            /\ ret.err = NoErr => ret.out[1] = FirstToThree(setScores)


\* The scores validate and name the declared winner's side.
ScoresNameWinner(challengerID, defenderID, winnerID, setScores) ==
    LET v == ValidateScore(setScores)
    IN  /\ v.err = NoErr
        /\ v.winner = 1 => winnerID = challengerID
        /\ v.winner = 2 => winnerID = defenderID

\* C19: every MATCH_RESULT record written through the service has scores
\* that validate and name its winner; a call whose scores do not validate or
\* do not name the declared winner returns an error with Success false and
\* leaves the log as it was, and the log changes only by one MATCH_RESULT
\* record for the request.
C19_ServiceChecksScores ==
    /\ [](\A i \in 1..Len(log) :
            log[i].type = "MATCH_RESULT" =>
                ScoresNameWinner(log[i].payload.challenger_id,
                                 log[i].payload.defender_id,
                                 log[i].payload.winner_id,
                                 log[i].payload.set_scores))
    /\ [][ret'.op = "ServiceAddMatchResult" =>
            LET a == ret'.args
                ok == ScoresNameWinner(a[1], a[2], a[3], a[4])
            IN  /\ ~ok => /\ ret'.err # NoErr
                          /\ ~ret'.out[1].success
                          /\ log' = log
                /\ ret'.err # NoErr => (~ret'.out[1].success /\ log' = log)
                /\ ret'.err = NoErr =>
                      /\ ok
                      /\ ret'.out[1].success
                      /\ log' = Append(log, log'[Len(log')])
                      /\ log'[Len(log')].type = "MATCH_RESULT"
                      /\ log'[Len(log')].id = ret'.out[1].transaction_id
                      /\ log'[Len(log')].payload =
                            MatchResultPayload(a[1], a[2], a[3], a[4])]_vars

\* C19 witness: the service has recorded a match the defender won because
\* the challenger gave up, and then refused a request whose winner the
\* scores do not name.
C19_Witness ==
    /\ ret.op = "ServiceAddMatchResult"
    /\ ret.err = "scores and winner_id do not match"
    /\ ret.args[1] # ret.args[2]
    /\ Len(log) >= 3
    /\ LastRecord.type = "MATCH_RESULT"
    /\ LastRecord.payload.winner_id = LastRecord.payload.defender_id
    /\ LastRecord.payload.challenger_id # LastRecord.payload.defender_id
    /\ LastRecord.payload.set_scores[Len(LastRecord.payload.set_scores)].challenger_default


\* C21: a score without a default that ValidateScore accepts has three to
\* five sets, and the side that lost has won at most two of them.
C21_BestOfFive ==
    (ret.op = "ValidateScore" /\ NoDefault(ret.args[1]) /\ ret.err = NoErr) =>
        LET setScores == ret.args[1]
        IN  /\ Len(setScores) \in 3..5
            /\ SetsWon(setScores, Len(setScores), 3 - ret.out[1]) <= 2

HasDefault(s) == s.challenger_default \/ s.defender_default

\* C22: ValidateScore fails when a set before the last has a default flag and
\* when the last set has both.
C22_DefaultOnlyInLastSet ==
    ret.op = "ValidateScore" =>
        LET setScores == ret.args[1]
            n == Len(setScores)
        IN  (\/ \E j \in 1..(n - 1) : HasDefault(setScores[j])
             \/ n > 0 /\ setScores[n].challenger_default /\ setScores[n].defender_default)
            => (ret.err # NoErr /\ ret.out = <<0>>)

\* C22 witness: a score of three sets was refused because its first set,
\* the only one with a flag, is a default.
C22_Witness ==
    /\ ret.op = "ValidateScore"
    /\ Len(ret.args[1]) = 3
    /\ HasDefault(ret.args[1][1])
    /\ ~HasDefault(ret.args[1][2]) /\ ~HasDefault(ret.args[1][3])
    /\ ret.err = "defaulting player must happen in the final set"

\* The totals of a played set are allowed: none negative, one at least 11,
\* two or more apart.
PointsValid(s) ==
    /\ s.challenger_points >= 0 /\ s.defender_points >= 0
    /\ s.challenger_points >= 11 \/ s.defender_points >= 11
    /\ \/ s.challenger_points - s.defender_points >= 2
       \/ s.defender_points - s.challenger_points >= 2

\* C23: when the last set has exactly one default flag and the sets before it
\* are played sets with allowed totals, ValidateScore returns the side that
\* did not default, whatever the totals of the last set and however many sets
\* each side has won.
C23_DefaultGivesTheMatch ==
    ret.op = "ValidateScore" =>
        LET setScores == ret.args[1]
            n == Len(setScores)
        IN  (/\ n > 0
             /\ setScores[n].challenger_default # setScores[n].defender_default
             /\ \A j \in 1..(n - 1) :
                   ~HasDefault(setScores[j]) /\ PointsValid(setScores[j]))
            => /\ ret.err = NoErr
               /\ ret.out = <<IF setScores[n].challenger_default THEN 2 ELSE 1>>

\* C23 witness: the challenger won five sets and then gave up a sixth whose
\* totals are not those of a played set; the defender has the match.
C23_Witness ==
    /\ ret.op = "ValidateScore"
    /\ Len(ret.args[1]) = 6
    /\ SetsWon(ret.args[1], 5, 1) = 5
    /\ ret.args[1][6].challenger_default /\ ~ret.args[1][6].defender_default
    /\ ~PointsValid(ret.args[1][6])
    /\ ret.err = NoErr /\ ret.out = <<2>>

\* C24: ValidateScore fails when a played set, met before any default, has a
\* negative total, no total of 11 or more, or totals less than two apart
\* (11-10, 12-11, 5-2); when all sets are played sets with allowed totals
\* (12-10, 15-13 among them) each set counts for the side with more points.
C24_SetToElevenWinByTwo ==
    ret.op = "ValidateScore" =>
        LET setScores == ret.args[1]
            n == Len(setScores)
            p1 == SetsWon(setScores, n, 1)
            p2 == SetsWon(setScores, n, 2)
        IN  /\ (\E j \in 1..n :
                  /\ ~PointsValid(setScores[j])
                  /\ \A i \in 1..j : ~HasDefault(setScores[i]))
               => ret.err # NoErr
            /\ (\A j \in 1..n : ~HasDefault(setScores[j]) /\ PointsValid(setScores[j]))
               => /\ ret.err = NoErr <=> (p1 <= 3 /\ p2 <= 3 /\ (p1 = 3 \/ p2 = 3))
                  /\ ret.err = NoErr => ret.out = <<IF p1 = 3 THEN 1 ELSE 2>>
            /\ (\E j \in 1..n :
                  /\ setScores[j] \in {SetScore(11, 10, FALSE, FALSE),
                                       SetScore(12, 11, FALSE, FALSE),
                                       SetScore(5, 2, FALSE, FALSE)}
                  /\ \A i \in 1..j : ~HasDefault(setScores[i]))
               => ret.err # NoErr
            /\ setScores = <<SetScore(12, 10, FALSE, FALSE), SetScore(15, 13, FALSE, FALSE),
                             SetScore(10, 12, FALSE, FALSE)>>
               => ret.err # NoErr
            /\ setScores = <<SetScore(12, 10, FALSE, FALSE), SetScore(15, 13, FALSE, FALSE),
                             SetScore(12, 10, FALSE, FALSE)>>
               => ret = Returned("ValidateScore", <<setScores>>, NoErr, <<1>>)

\* C24 witness: three sets of 12-10, 15-13 and 12-10 were accepted as a win
\* of the challenger.
C24_Witness ==
    /\ ret.op = "ValidateScore"
    /\ ret.args[1] = <<SetScore(12, 10, FALSE, FALSE), SetScore(15, 13, FALSE, FALSE),
                       SetScore(12, 10, FALSE, FALSE)>>
    /\ ret.err = NoErr /\ ret.out = <<1>>


\* The player list that records from..to of the log, taken oldest first,
\* make of the given one; INVALIDATE_MATCH records are passed over.
RECURSIVE ForwardFrom(_, _, _, _)
ForwardFrom(lg, from, to, players) ==
    IF from > to THEN players
    ELSE IF lg[from].type = "INVALIDATE_MATCH"
    THEN ForwardFrom(lg, from + 1, to, players)
    ELSE ForwardFrom(lg, from + 1, to,
                     applyTransactionLogic(lg[from].type, lg[from].payload,
                                           players).players)

\* C25: the player list of an INVALIDATE_MATCH record is the list of the
\* record before its target (the empty list when the target is the first
\* record) with every record between the target and the invalidation
\* applied to it oldest first, INVALIDATE_MATCH records passed over and the
\* target not applied.
C25_ReplayFromBaseline ==
    \A i \in 1..Len(log) :
        log[i].type = "INVALIDATE_MATCH" =>
            \E t \in 1..(i - 1) :
                /\ log[t].id = log[i].payload.invalidated_transaction_id
                /\ log[t].type = "MATCH_RESULT"
                /\ storageToLadder(log[i].player_list)
                     = ForwardFrom(log, t + 1, i - 1,
                                   storageToLadder(SnapshotBefore(log, t)))

\* C25 witness: an invalidation has replayed a match and passed over an
\* INVALIDATE_MATCH record, both newer than its target, and changed the
\* ladder.
C25_Witness ==
    /\ ret.op = "InvalidateMatchResult" /\ ret.err = NoErr
    /\ LastRecord.type = "INVALIDATE_MATCH"
    /\ LastRecord.player_list # log[Len(log) - 1].player_list
    /\ \E t \in 1..Len(log), j \in 1..Len(log), k \in 1..Len(log) :
          /\ log[t].id = LastRecord.payload.invalidated_transaction_id
          /\ t < j /\ j < Len(log) /\ t < k /\ k < Len(log)
          /\ log[j].type = "MATCH_RESULT"
          /\ log[k].type = "INVALIDATE_MATCH"


\* The listing without the entries of transaction txID.
WithoutMatch(matches, txID) ==
    SelectSeq(matches, LAMBDA m : m.transaction_id # txID)

\* C26: an invalidation that succeeded removes exactly its target from the
\* recent matches: for every INVALIDATE_MATCH record of the log, the listing
\* of the log up to and including that record, with a limit no smaller than
\* the number of records, is the listing of the log just before it with the
\* target deleted, the other entries and their order unchanged.
C26_InvalidateRemovesExactlyTheTarget ==
    \A i \in 1..Len(log) :
        log[i].type = "INVALIDATE_MATCH" =>
            RecentMatches(fileExists, SubSeq(log, 1, i), Len(log))
              = WithoutMatch(RecentMatches(fileExists, SubSeq(log, 1, i - 1), Len(log)),
                             log[i].payload.invalidated_transaction_id)

\* C26 witness: an invalidation has just succeeded on a match that was
\* listed between two other listed matches, which both stay listed.
C26_Witness ==
    /\ ret.op = "InvalidateMatchResult" /\ ret.err = NoErr
    /\ LastRecord.type = "INVALIDATE_MATCH"
    /\ LET before == RecentMatches(fileExists, SubSeq(log, 1, Len(log) - 1), Len(log))
           after == RecentMatches(fileExists, log, Len(log))
       IN  /\ Len(before) = 3
           /\ before[2].transaction_id = LastRecord.payload.invalidated_transaction_id
           /\ after = <<before[1], before[3]>>


\* The log with its undecodable lines deleted.
DecodableLines(lg) == SelectSeq(lg, Decodable)

\* C27: when the tail of the log is well formed and an undecodable line
\* lies between the tail and the target match, or directly before the
\* target, InvalidateMatchResult passes over that line and succeeds.
C27_InvalidateSkipsDamagedLines ==
    [][\A txID \in 1..Len(log) :
          LET idx == ScanForTarget(log, txID)
          IN  (/\ InvalidateMatchResult(txID)
               /\ idx > 0
               /\ Decodable(log[idx]) /\ log[idx].type = "MATCH_RESULT"
               /\ Decodable(log[Len(log)])
               /\ \E j \in 1..(Len(log) - 1) :
                     /\ ~Decodable(log[j])
                     /\ j = idx - 1 \/ j > idx
               /\ \A j \in 1..Len(log) :
                     ~Decodable(log[j]) => (j = idx - 1 \/ j > idx))
              => ret'.err = NoErr]_vars

\* C28: GetRecentMatches returns without error the matches it would return
\* on the log with the undecodable lines deleted.
C28_RecentMatchesSkipDamagedLines ==
    [][\A limit \in 1..MaxLimit :
          GetRecentMatches(limit) =>
              /\ ret'.err = NoErr
              /\ ret'.out = RecentMatches(fileExists, DecodableLines(log), limit)]_vars

\* C28 witness: GetRecentMatches has listed a match although a record that
\* invalidates it is in the log, on a line that cannot be decoded, with a
\* listed match on either side of that line.
C28_Witness ==
    /\ ret.op = "GetRecentMatches" /\ ret.err = NoErr
    /\ Len(ret.out) = 2
    /\ \E j \in 1..Len(log) :
          /\ ~Decodable(log[j])
          /\ "invalidated_transaction_id" \in DOMAIN log[j].payload
          /\ ret.out[2].transaction_id = log[j].payload.invalidated_transaction_id
          /\ ret.out[1].transaction_id > log[j].id


\* C29: while the log file is missing or empty, ListPlayers has returned the
\* empty ordering and GetRecentMatches no matches, both without error, and
\* no AddPlayer has failed; once the log has a record, the file exists and
\* its first record is an ADD_PLAYER whose snapshot is that one player at
\* rank 1.
C29_EmptyLogIsEmptyLadder ==
    /\ Len(log) = 0 =>
          /\ ret.op \in {"ListPlayers", "GetRecentMatches"} =>
                ret.err = NoErr /\ ret.out = <<>>
          /\ ret.op # "AddPlayer"
    /\ Len(log) >= 1 =>
          /\ fileExists
          /\ log[1].type = "ADD_PLAYER"
          /\ log[1].player_list = <<[id |-> log[1].payload.player_id,
                                     name |-> log[1].payload.name,
                                     rank |-> 1]>>

\* C29 witness: the first AddPlayer has just created the log with its record.
C29_Witness ==
    /\ ret.op = "AddPlayer" /\ ret.err = NoErr
    /\ Len(log) = 1
    /\ log[1].player_list = <<[id |-> ret.out[1].id, name |-> ret.out[1].name, rank |-> 1]>>


\* C30: in the in-memory Model, whatever the interleaving of concurrent
\* AddPlayer calls, the player list never holds two entries with the same id.
C30_AddPlayerCheckAndAppendAreOneStep == UniqueIds(Players)


\* C31: in the in-memory Model, InvalidateMatchResult on the id of a
\* transaction that is not a MATCH_RESULT returns an error and leaves
\* Players, Transactions and the log file as they were.
C31_MemInvalidateOnlyMatches ==
    [][\A txID \in 1..(writes + 1) :
          LET txIdx == TxIdx(Transactions, txID)
          IN  (/\ MemInvalidateMatchResult(txID)
               /\ txIdx # 0
               /\ Transactions[txIdx].type # "MATCH_RESULT")
              => /\ ret'.err # NoErr
                 /\ UNCHANGED memVars]_vars


\* C32: on every log the Model has written, the invalidation of any
\* MATCH_RESULT record would succeed, and no invalidation has returned the
\* error of a failed replay.
C32_ReplayNeverFails ==
    /\ \A idx \in 1..Len(log) :
          log[idx].type = "MATCH_RESULT" =>
              InvalidateOutcome(fileExists, log, log[idx].id).err = NoErr
    /\ ret.op = "InvalidateMatchResult" => ret.err # "replay failed"

\* C32 witness: an invalidation has succeeded whose replay went through a
\* removal and an addition of a player recorded after the target.
C32_Witness ==
    /\ ret.op = "InvalidateMatchResult" /\ ret.err = NoErr
    /\ LastRecord.type = "INVALIDATE_MATCH"
    /\ \E t \in 1..Len(log), j \in 1..Len(log), k \in 1..Len(log) :
          /\ log[t].id = LastRecord.payload.invalidated_transaction_id
          /\ t < j /\ j < k /\ k < Len(log)
          /\ log[j].type = "REMOVE_PLAYER"
          /\ log[k].type = "ADD_PLAYER"


\* The (id, name) pairs of a player list.
IdsAndNames(players) == {<<players[i].id, players[i].name>> : i \in 1..Len(players)}

\* C33: an invalidation changes only the order of the players: the snapshot
\* of every INVALIDATE_MATCH record holds the same (id, name) pairs, and as
\* many players, as the snapshot of the record before it.
C33_InvalidateOnlyReorders ==
    \A i \in 1..Len(log) :
        log[i].type = "INVALIDATE_MATCH" =>
            /\ IdsAndNames(log[i].player_list) = IdsAndNames(SnapshotBefore(log, i))
            /\ Len(log[i].player_list) = Len(SnapshotBefore(log, i))

\* C33 witness: an invalidation has changed the order of a ladder of two
\* players.
C33_Witness ==
    /\ ret.op = "InvalidateMatchResult" /\ ret.err = NoErr
    /\ LastRecord.type = "INVALIDATE_MATCH"
    /\ Len(LastRecord.player_list) = 2
    /\ LastRecord.player_list # SnapshotBefore(log, Len(log))


\* C34: invalidating the same match twice in succession gives the same
\* ladder twice.  When the last record invalidates a match, invalidating
\* that match again succeeds with the ordering of the last record; and two
\* successive INVALIDATE_MATCH records of the log that name the same match
\* carry the same snapshot.
C34_InvalidateTwiceIsIdempotent ==
    /\ (Len(log) > 0 /\ LastRecord.type = "INVALIDATE_MATCH") =>
          LET r == InvalidateOutcome(fileExists, log,
                                     LastRecord.payload.invalidated_transaction_id)
          IN  /\ r.err = NoErr
              /\ ladderToStorage(r.players) = LastRecord.player_list
    /\ \A i \in 2..Len(log) :
          (/\ log[i].type = "INVALIDATE_MATCH"
           /\ log[i - 1].type = "INVALIDATE_MATCH"
           /\ log[i].payload.invalidated_transaction_id
                = log[i - 1].payload.invalidated_transaction_id)
          => log[i].player_list = log[i - 1].player_list

\* C34 witness: the same match has just been invalidated a second time in
\* succession, a later match was replayed both times, and the ordering is
\* not the one the invalidated match had left.
C34_Witness ==
    /\ ret.op = "InvalidateMatchResult" /\ ret.err = NoErr
    /\ Len(log) >= 4
    /\ LastRecord.type = "INVALIDATE_MATCH"
    /\ log[Len(log) - 1].type = "INVALIDATE_MATCH"
    /\ log[Len(log) - 1].payload.invalidated_transaction_id = ret.args[1]
    /\ LastRecord.payload.invalidated_transaction_id = ret.args[1]
    /\ log[Len(log) - 2].type = "MATCH_RESULT"
    /\ log[Len(log) - 2].id # ret.args[1]
    /\ \E t \in 1..Len(log) :
          log[t].id = ret.args[1] /\ log[t].player_list # LastRecord.player_list


\* C35: while the last line of the log is undecodable, no step changes the
\* log, and every AddPlayer, RemovePlayer, AddMatchResult and
\* InvalidateMatchResult call returns an error.
C35_CorruptTailBlocksWrites ==
    [][(Len(log) > 0 /\ ~Decodable(log[Len(log)])) =>
          /\ log' = log
          /\ fileExists' = fileExists
          /\ ret'.op \in WriteOps => ret'.err # NoErr]_vars

\* C35 witness: a mutating call has been refused because the last line of
\* the log, left by an append that failed part-way, cannot be decoded.
C35_Witness ==
    /\ Len(log) >= 2
    /\ ~Decodable(LastRecord)
    /\ ret.op \in {"AddPlayer", "RemovePlayer", "AddMatchResult"}
    /\ ret.err = "failed to decode line"


\* The goroutines inside the section of a reading call that holds the read
\* lock, and inside the read-compute-append section of a mutating call.
InReadSection == {p \in Procs : pc[p] \in {"rread", "runlock"}}
InWriteSection == {p \in Procs : pc[p] \in {"read", "write", "rest", "unlock"}}

\* While a line is written in part, or a mutating call is between its read
\* and its Unlock, no reading call is in its section; a reading call that
\* has read the file holds what the file holds now.
ReadersExcludeWriters ==
    /\ InWriteSection # {} => InReadSection = {}
    /\ Cardinality(InWriteSection) <= 1
    /\ (Len(log) > 0 /\ ~Decodable(log[Len(log)])) => InReadSection = {}
    /\ \A p \in Procs :
          pc[p] = "runlock" => seen[p] = [exists |-> fileExists, lg |-> log]

\* C36: a ListPlayers or GetRecentMatches call that runs beside mutating
\* calls never overlaps the read-compute-append section of one of them and
\* never meets a record written in part: what it returns is what the call
\* gives on the log as it stands, complete, at the instant of the return.
C36_ReadersSeeWholeRecords ==
    /\ []ReadersExcludeWriters
    /\ [][\A p \in Procs :
             RUnlock(p) =>
                 /\ \A i \in 1..Len(log) : Decodable(log[i])
                 /\ ret'.err = NoErr
                 /\ ret'.out = ReadOutcome(call[p], [exists |-> fileExists, lg |-> log])]_vars

\* C36 witness: a reading call waits for the read lock while the record of a
\* mutating call is in the file in part.
C36_Witness ==
    \E p \in Procs, q \in Procs :
        /\ pc[p] = "rest" /\ pc[q] = "rlock"
        /\ ~Decodable(log[Len(log)])
        /\ mu.writer = p


\* A goroutine outside its locked section holds neither lock, so it never
\* asks for the lock while it holds it and never returns with it; the lock
\* is held by the goroutines inside their sections and by no other.
LockDiscipline ==
    /\ \A p \in Procs :
          pc[p] \in {"idle", "lock", "rlock"} => mu.writer # p /\ p \notin mu.readers
    /\ mu.writer # "" => mu.writer \in InWriteSection
    /\ mu.readers = InReadSection

\* C37: no call blocks forever on the RWMutex.  Every method releases the
\* lock on each of its return paths and never asks for it while holding it,
\* and under fair scheduling every call that was entered returns.
C37_EveryCallReturns ==
    /\ []LockDiscipline
    /\ \A p \in Procs : (pc[p] # "idle") ~> (pc[p] = "idle")

\* C37 witness: a call waits for the lock while the holder is about to
\* return an error.
C37_Witness ==
    \E p \in Procs, q \in Procs :
        /\ pc[p] \in {"lock", "rlock"}
        /\ mu.writer = q /\ pc[q] = "write"
        /\ CallOutcome(call[q], seen[q]).err # NoErr


\* C38: in the in-memory Model, an AddPlayer that returns without error
\* returns the player of its own arguments, whatever other calls ran
\* between its append and its return.
C38_AddPlayerReturnsItsPlayer ==
    [][\A p \in Procs :
          (MemReturnAdded(p) /\ ret'.err = NoErr) =>
              /\ ret'.out[1].id = call[p].args[2]
              /\ ret'.out[1].name = call[p].args[1]]_vars

====
